---------------------------- MODULE Spec2Model ----------------------------
(***************************************************************************)
(* NarrationEngine worker system (src/Worker/worker_system.py).            *)
(*                                                                         *)
(* Spec is the WorkerManager: the run() polling loop, the tasks it creates *)
(* with asyncio.create_task(start_worker()), should_start_new_worker() and *)
(* the backoff accounting at the end of start_worker().  BurstSpec is the  *)
(* same manager taken up at a later moment, with max_workers executions    *)
(* in flight, each past the 30 second mark.  PipeSpec follows the          *)
(* executions themselves: Worker.process_narration() from await to await,  *)
(* with the files it leaves under outputs/; JobSpec is PipeSpec within one *)
(* second of the wall clock.  LiveSpec is Spec with the fairness of the    *)
(* event loop.  VoiceSpec is VoiceSelector.get_voice() on its own.         *)
(* AudioSpec is the import of the module followed by calls of              *)
(* AudioProcessor.convert_wav_to_mp3(), get_mp3_duration() and             *)
(* get_audio_duration().  TimedJobSpec is JobSpec with the seconds of one  *)
(* polling sleep going by.  NotifySpec follows calls of                    *)
(* DiscordNotifier.send_narration_summary() from await to await, and       *)
(* SummarySpec the two calls of get_voice() made for one job.              *)
(*                                                                         *)
(* Everything runs on one asyncio event loop, so the code between two      *)
(* awaits is one atomic step: an action below is one such segment.         *)
(*                                                                         *)
(* Time.  time.time() enters the manager only through two differences,     *)
(* which the code names itself: time_since_last_no_narration (line 934)    *)
(* and processing_time (line 954).  The model keeps these differences      *)
(* instead of the timestamps; Tick lets one second pass and increases      *)
(* them.  processing_time is compared with 30 only, so it is counted up   *)
(* to 31.  time_since_last_no_narration is compared with the backoff in    *)
(* force only, and every step that raises the backoff sets it to 0, so it  *)
(* is counted until it reaches the backoff in force.                       *)
(***************************************************************************)
EXTENDS Integers, FiniteSets, Sequences, TLC

(* ------------------------------ bounds --------------------------------- *)
\* config.max_workers ranges over 0..MaxConfiguredWorkers
MaxConfiguredWorkers == 2
\* worker_counter goes up to MaxLaunches: no task is created beyond that
MaxLaunches == 6
\* asyncio.sleep(n) returns after n..n+MaxOversleep seconds
MaxOversleep == 1
\* BurstSpec: config.max_workers, and the executions in flight at its start
BurstWorkers == 5
\* PipeSpec: executions in flight at once, executions begun, clock seconds
PipeConcurrency == 2
PipeLaunches == 2
MaxClock == 1

(* ------------------------- program constants --------------------------- *)
InitialBackoff == 5
max_backoff == 60
ProcessingThreshold == 30
PollInterval == 2
DrainInterval == 1

VARIABLES
    max_workers,                  \* config.max_workers
    active_workers,               \* worker_id -> [processing_time, status]
    worker_counter,               \* WorkerManager.worker_counter
    running,                      \* WorkerManager.running
    no_narrations_backoff,        \* WorkerManager.no_narrations_backoff
    time_since_last_no_narration, \* time.time() - last_no_narration_time
    run_pc,                       \* where run() is: idle, sleep, drain, done
    slept,                        \* seconds since run() began its sleep
    created,                      \* tasks created by create_task, not begun
    executing,                    \* worker ids awaiting process_narration()
    pipe,                         \* worker_id -> locals of process_narration()
    files,                        \* path under outputs/ -> ids that wrote it
    clock,                        \* datetime.now(), in whole seconds
    returned,                     \* how the execution that ended last ended
    config,                       \* config.voice and config.use_random_voice
    voice_call,                   \* the last call of VoiceSelector.get_voice
    imported,                     \* how far the module body has run
    PYDUB_AVAILABLE,              \* the module global of lines 31 and 33
    audio_call                    \* the last call of an AudioProcessor method

pool_vars == <<max_workers, active_workers, worker_counter, running,
               no_narrations_backoff, time_since_last_no_narration, run_pc,
               slept, created, executing>>

pipe_vars == <<pipe, files, clock, returned>>

voice_vars == <<config, voice_call>>

audio_vars == <<imported, PYDUB_AVAILABLE, audio_call>>

vars == <<pool_vars, pipe_vars, voice_vars, audio_vars>>

Min(a, b) == IF a < b THEN a ELSE b

active_count == Cardinality(DOMAIN active_workers)

(* process_narration() ends in one of four ways that start_worker() tells  *)
(* apart: it returns True, it returns False, it raises a WorkerError whose *)
(* text holds "No narration available for audio generation", or it raises  *)
(* another WorkerError.                                                    *)
Outcomes == {"True", "False", "WorkerError_no_narration", "WorkerError_other"}

\* no execution has ended yet
NoReturn ==
    [status |-> "none", at |-> "none", result |-> "none", uploaded |-> "None",
     error_msg |-> << >>]

\* WorkerConfig as it stands without settings: lines 55-56
DefaultConfig == [voice |-> "tara", use_random_voice |-> TRUE]

\* get_voice() has not been called yet
NoVoiceCall ==
    [called |-> FALSE, target_gender |-> << >>, selected_voice |-> "",
     job_gender |-> << >>, chosen_voice |-> ""]

\* no AudioProcessor method has been called yet
NoAudioCall ==
    [fn |-> "none",
     file |-> [thread |-> "None", timestamp |-> 0, ext |-> "None"],
     exists |-> FALSE,
     env |-> [pydub |-> "none", ms |-> 0, ffmpeg_version |-> "none",
              ffmpeg_run |-> "none", stderr |-> << >>],
     wav |-> [readable |-> FALSE, frames |-> 0, rate |-> 0],
     tried |-> << >>, outcome |-> "none",
     path |-> [thread |-> "None", timestamp |-> 0, ext |-> "None"],
     duration |-> 0]

\* the module body has run to its end, lines 7-44 and on: a worker runs
\* only then.  The import of line 30 went through, since line 34, in the
\* except branch, uses logger, which line 44 defines: where pydub does not
\* import, the module raises NameError and nothing of it can be called.
ModuleLoaded ==
    /\ imported = "loaded"
    /\ PYDUB_AVAILABLE = TRUE
    /\ audio_call = NoAudioCall

(* ----------------------- should_start_new_worker ----------------------- *)
\* lines 933-935: inside a backoff window that has not run out
InBackoffWindow ==
    /\ no_narrations_backoff > 0
    /\ time_since_last_no_narration < no_narrations_backoff

\* lines 952-956 with line 955 written >= : a record that is 'processing'
\* for exactly 30 seconds counts as busy
SomeWorkerBusy_at_threshold ==
    \E w \in DOMAIN active_workers :
        /\ active_workers[w].status = "processing"
        /\ active_workers[w].processing_time >= ProcessingThreshold

\* lines 952-956: some record is 'processing' for more than 30 seconds
SomeWorkerBusy ==
    \E w \in DOMAIN active_workers :
        /\ active_workers[w].status = "processing"
        /\ active_workers[w].processing_time > ProcessingThreshold

\* should_start_new_worker() with line 935 written <= : a backoff that has
\* just run out still holds the pool back
should_start_new_worker_late ==
    IF no_narrations_backoff > 0
    THEN IF time_since_last_no_narration <= no_narrations_backoff
         THEN FALSE
         ELSE active_count = 0
    ELSE IF active_count = 0
         THEN TRUE
         ELSE IF active_count < max_workers
              THEN SomeWorkerBusy
              ELSE FALSE

\* should_start_new_worker() with lines 941 and 946 tested against
\* max_workers as line 949 is
should_start_new_worker_capped ==
    IF no_narrations_backoff > 0
    THEN IF time_since_last_no_narration < no_narrations_backoff
         THEN FALSE
         ELSE active_count = 0 /\ active_count < max_workers
    ELSE IF active_count < max_workers
         THEN active_count = 0 \/ SomeWorkerBusy
         ELSE FALSE

\* should_start_new_worker() with line 941 returning True: a backoff that
\* has run out always lets a probe go
should_start_new_worker_probe_always ==
    IF no_narrations_backoff > 0
    THEN IF time_since_last_no_narration < no_narrations_backoff
         THEN FALSE
         ELSE TRUE
    ELSE IF active_count = 0
         THEN TRUE
         ELSE IF active_count < max_workers
              THEN SomeWorkerBusy
              ELSE FALSE

\* the value should_start_new_worker() returns in the current state
should_start_new_worker ==
    IF no_narrations_backoff > 0
    THEN IF time_since_last_no_narration < no_narrations_backoff
         THEN FALSE
         ELSE active_count = 0
    ELSE IF active_count = 0
         THEN TRUE
         ELSE IF active_count < max_workers
              THEN SomeWorkerBusy
              ELSE FALSE

\* the value should_start_new_worker() leaves in no_narrations_backoff
backoff_after_decision ==
    IF no_narrations_backoff > 0
       /\ ~(time_since_last_no_narration < no_narrations_backoff)
    THEN 0
    ELSE no_narrations_backoff

(* ------------------------------ run() ---------------------------------- *)
\* the while body with line 969 written while instead of if: tasks are
\* created until the pool would be full
Iterate_filling ==
    /\ should_start_new_worker => worker_counter + created < MaxLaunches
    /\ no_narrations_backoff' = backoff_after_decision
    /\ created' = IF should_start_new_worker
                  THEN IF max_workers - active_count > 1
                       THEN created + (max_workers - active_count)
                       ELSE created + 1
                  ELSE created
    /\ slept' = 0
    /\ run_pc' = "sleep"

\* one pass of the while body, lines 968-973
Iterate ==
    /\ should_start_new_worker => worker_counter + created < MaxLaunches
    /\ no_narrations_backoff' = backoff_after_decision
    /\ created' = IF should_start_new_worker THEN created + 1 ELSE created
    /\ slept' = 0
    /\ run_pc' = "sleep"

\* run() is called: lines 962-973 up to the first sleep
RunStart ==
    /\ run_pc = "idle"
    /\ running' = TRUE
    /\ Iterate
    /\ UNCHANGED <<max_workers, active_workers, worker_counter,
                   time_since_last_no_narration, executing>>
    /\ UNCHANGED <<pipe_vars, voice_vars, audio_vars>>

\* run() with the sleep of line 973 able to return before a task made in
\* the pass before has begun
LoopWake_racing ==
    /\ run_pc = "sleep"
    /\ slept >= PollInterval
    /\ running
    /\ Iterate
    /\ UNCHANGED <<max_workers, active_workers, worker_counter, running,
                   time_since_last_no_narration, executing>>
    /\ UNCHANGED <<pipe_vars, voice_vars, audio_vars>>

\* the sleep of line 973 returns with running still set.  A task made by
\* create_task in the pass before has begun by then: its first step was
\* queued on the event loop before the sleep's timer could fire.
LoopWake ==
    /\ run_pc = "sleep"
    /\ slept >= PollInterval
    /\ created = 0
    /\ running
    /\ Iterate
    /\ UNCHANGED <<max_workers, active_workers, worker_counter, running,
                   time_since_last_no_narration, executing>>
    /\ UNCHANGED <<pipe_vars, voice_vars, audio_vars>>

\* lines 977-986 with the tasks cancelled and the records dropped instead
\* of the wait of lines 981-984
LoopExit_cancelling ==
    /\ run_pc = "sleep"
    /\ slept >= PollInterval
    /\ created = 0
    /\ ~running
    /\ running' = FALSE
    /\ run_pc' = "done"
    /\ active_workers' = << >>
    /\ executing' = {}
    /\ UNCHANGED <<max_workers, worker_counter, no_narrations_backoff,
                   time_since_last_no_narration, slept, created>>
    /\ UNCHANGED <<pipe_vars, voice_vars, audio_vars>>

\* the sleep of line 973 returns with running cleared: lines 977-986
LoopExit ==
    /\ run_pc = "sleep"
    /\ slept >= PollInterval
    /\ created = 0
    /\ ~running
    /\ running' = FALSE
    /\ IF active_workers # << >>
       THEN run_pc' = "drain" /\ slept' = 0
       ELSE run_pc' = "done" /\ slept' = slept
    /\ UNCHANGED <<max_workers, active_workers, worker_counter,
                   no_narrations_backoff, time_since_last_no_narration,
                   created, executing>>
    /\ UNCHANGED <<pipe_vars, voice_vars, audio_vars>>

\* lines 981-984 waiting on worker_counter instead of active_workers
DrainWake_counting ==
    /\ run_pc = "drain"
    /\ slept >= DrainInterval
    /\ IF worker_counter # 0
       THEN run_pc' = "drain" /\ slept' = 0
       ELSE run_pc' = "done" /\ slept' = slept
    /\ UNCHANGED <<max_workers, active_workers, worker_counter, running,
                   no_narrations_backoff, time_since_last_no_narration,
                   created, executing>>
    /\ UNCHANGED <<pipe_vars, voice_vars, audio_vars>>

\* the sleep of line 984 returns
DrainWake ==
    /\ run_pc = "drain"
    /\ slept >= DrainInterval
    /\ IF active_workers # << >>
       THEN run_pc' = "drain" /\ slept' = 0
       ELSE run_pc' = "done" /\ slept' = slept
    /\ UNCHANGED <<max_workers, active_workers, worker_counter, running,
                   no_narrations_backoff, time_since_last_no_narration,
                   created, executing>>
    /\ UNCHANGED <<pipe_vars, voice_vars, audio_vars>>

\* stop(), lines 988-990
Stop ==
    /\ run_pc \in {"sleep", "drain"}
    /\ running
    /\ running' = FALSE
    /\ UNCHANGED <<max_workers, active_workers, worker_counter,
                   no_narrations_backoff, time_since_last_no_narration,
                   run_pc, slept, created, executing>>
    /\ UNCHANGED <<pipe_vars, voice_vars, audio_vars>>

(* --------------------------- start_worker() ---------------------------- *)
\* lines 911-924 without the elif of line 921
backoff_after_finish_no_reset(o) ==
    IF o = "WorkerError_no_narration"
    THEN IF no_narrations_backoff = 0
         THEN InitialBackoff
         ELSE Min(no_narrations_backoff * 2, max_backoff)
    ELSE no_narrations_backoff

\* lines 911-924 without the min of line 919
backoff_after_finish_uncapped(o) ==
    IF o = "WorkerError_no_narration"
    THEN IF no_narrations_backoff = 0
         THEN InitialBackoff
         ELSE no_narrations_backoff * 2
    ELSE IF o = "True"
         THEN 0
         ELSE no_narrations_backoff

\* lines 911-924 with line 921 written else: whatever is not no_work
\* resets the backoff
backoff_after_finish_reset_unless_no_work(o) ==
    IF o = "WorkerError_no_narration"
    THEN IF no_narrations_backoff = 0
         THEN InitialBackoff
         ELSE Min(no_narrations_backoff * 2, max_backoff)
    ELSE 0

\* lines 911-924: the backoff after an execution that ended with outcome o
backoff_after_finish(o) ==
    IF o = "WorkerError_no_narration"
    THEN IF no_narrations_backoff = 0
         THEN InitialBackoff
         ELSE Min(no_narrations_backoff * 2, max_backoff)
    ELSE IF o = "True"
         THEN 0
         ELSE no_narrations_backoff

\* lines 913-914: last_no_narration_time = time.time() on no_narrations
time_since_after_finish(o) ==
    IF o = "WorkerError_no_narration"
    THEN 0
    ELSE time_since_last_no_narration

\* start_worker() without the finally of lines 907-908
pop_worker_missing(w) == active_workers

\* lines 907-908: the record is popped on every way out of the try
pop_worker(w) ==
    [v \in DOMAIN active_workers \ {w} |-> active_workers[v]]

\* lines 864-867 then 874: the record as it stands at the first await
new_record == [processing_time |-> 0, status |-> "processing"]

\* start_worker() with the pop of line 908 after the try instead of in its
\* finally: when Worker(worker_id, config) raises, the record stays
TaskStart_leaking(ctor_ok) ==
    /\ created > 0
    /\ created' = created - 1
    /\ worker_counter' = worker_counter + 1
    /\ LET worker_id == worker_counter + 1 IN
       IF worker_id \notin DOMAIN active_workers
       THEN /\ active_workers' =
                 [v \in DOMAIN active_workers \cup {worker_id} |->
                     IF v = worker_id
                     THEN (IF ctor_ok THEN new_record
                           ELSE [processing_time |-> 0, status |-> "error"])
                     ELSE active_workers[v]]
            /\ executing' = IF ctor_ok THEN executing \cup {worker_id}
                            ELSE executing
       ELSE UNCHANGED <<active_workers, executing>>
    /\ UNCHANGED <<max_workers, running, no_narrations_backoff,
                   time_since_last_no_narration, run_pc, slept>>
    /\ UNCHANGED <<pipe_vars, voice_vars, audio_vars>>

\* start_worker() with a suspension point between line 867 and line 874
\* (Worker(worker_id, config) awaited): the task gives way with the record
\* at 'starting'
TaskStart_suspending(ctor_ok) ==
    /\ created > 0
    /\ created' = created - 1
    /\ worker_counter' = worker_counter + 1
    /\ LET worker_id == worker_counter + 1 IN
       IF ctor_ok /\ worker_id \notin DOMAIN active_workers
       THEN /\ active_workers' =
                 [v \in DOMAIN active_workers \cup {worker_id} |->
                     IF v = worker_id
                     THEN [processing_time |-> 0, status |-> "starting"]
                     ELSE active_workers[v]]
            /\ executing' = executing \cup {worker_id}
       ELSE UNCHANGED <<active_workers, executing>>
    /\ UNCHANGED <<max_workers, running, no_narrations_backoff,
                   time_since_last_no_narration, run_pc, slept>>
    /\ UNCHANGED <<pipe_vars, voice_vars, audio_vars>>

\* start_worker() with the id taken from the number of records instead
\* of a counter that only grows: worker_id = len(active_workers) + 1
TaskStart_numbering_by_size(ctor_ok) ==
    /\ created > 0
    /\ created' = created - 1
    /\ worker_counter' = active_count + 1
    /\ LET worker_id == active_count + 1 IN
       IF ctor_ok /\ worker_id \notin DOMAIN active_workers
       THEN /\ active_workers' =
                 [v \in DOMAIN active_workers \cup {worker_id} |->
                     IF v = worker_id THEN new_record
                     ELSE active_workers[v]]
            /\ executing' = executing \cup {worker_id}
       ELSE UNCHANGED <<active_workers, executing>>
    /\ UNCHANGED <<max_workers, running, no_narrations_backoff,
                   time_since_last_no_narration, run_pc, slept>>
    /\ UNCHANGED <<pipe_vars, voice_vars, audio_vars>>

\* The task begins: lines 857-878 up to the first await inside
\* process_narration().  ctor_ok = FALSE is Worker(worker_id, config)
\* raising (S3Uploader._initialize_s3_client, line 261): lines 904-909 and
\* 911-926 then run in the same step, with success and
\* no_narrations_available both False.
TaskStart(ctor_ok) ==
    /\ created > 0
    /\ created' = created - 1
    /\ worker_counter' = worker_counter + 1
    /\ LET worker_id == worker_counter + 1 IN
       IF ctor_ok /\ worker_id \notin DOMAIN active_workers
       THEN /\ active_workers' =
                 [v \in DOMAIN active_workers \cup {worker_id} |->
                     IF v = worker_id THEN new_record
                     ELSE active_workers[v]]
            /\ executing' = executing \cup {worker_id}
       ELSE UNCHANGED <<active_workers, executing>>
    /\ UNCHANGED <<max_workers, running, no_narrations_backoff,
                   time_since_last_no_narration, run_pc, slept>>
    /\ UNCHANGED <<pipe_vars, voice_vars, audio_vars>>

\* start_worker() with a suspension point between the finally of line 908
\* and the accounting of line 911 (an await there): the record goes in one
\* step of the event loop, the backoff update comes in a later one
Finish_yielding(w, o) ==
    /\ w \in executing
    /\ IF w \in DOMAIN active_workers
       THEN /\ active_workers' = pop_worker(w)
            /\ UNCHANGED <<executing, no_narrations_backoff,
                           time_since_last_no_narration>>
       ELSE /\ executing' = executing \ {w}
            /\ no_narrations_backoff' = backoff_after_finish(o)
            /\ time_since_last_no_narration' = time_since_after_finish(o)
            /\ UNCHANGED active_workers
    /\ UNCHANGED <<max_workers, worker_counter, running, run_pc, slept,
                   created>>
    /\ UNCHANGED <<pipe_vars, voice_vars, audio_vars>>

\* process_narration() of worker w ends with outcome o: lines 879-926
Finish(w, o) ==
    /\ w \in executing
    /\ executing' = executing \ {w}
    /\ active_workers' = pop_worker(w)
    /\ no_narrations_backoff' = backoff_after_finish(o)
    /\ time_since_last_no_narration' = time_since_after_finish(o)
    /\ UNCHANGED <<max_workers, worker_counter, running, run_pc, slept,
                   created>>
    /\ UNCHANGED <<pipe_vars, voice_vars, audio_vars>>

(* ------------------------------- time ---------------------------------- *)
SleepLength == IF run_pc = "drain" THEN DrainInterval ELSE PollInterval

\* one second passes
Tick ==
    /\ run_pc \in {"sleep", "drain"}
    /\ slept < SleepLength + MaxOversleep
    /\ slept' = slept + 1
    /\ time_since_last_no_narration' =
           IF time_since_last_no_narration < no_narrations_backoff
           THEN time_since_last_no_narration + 1
           ELSE time_since_last_no_narration
    /\ active_workers' =
           [w \in DOMAIN active_workers |->
               [active_workers[w] EXCEPT !.processing_time =
                   Min(@ + 1, ProcessingThreshold + 1)]]
    /\ UNCHANGED <<max_workers, worker_counter, running,
                   no_narrations_backoff, run_pc, created, executing>>
    /\ UNCHANGED <<pipe_vars, voice_vars, audio_vars>>

(* --------------------------- specification ----------------------------- *)
\* WorkerManager.__init__, lines 846-853.  last_no_narration_time = 0 is
\* the epoch: the time since it has reached the backoff in force, 0.
Init ==
    /\ max_workers \in 0..MaxConfiguredWorkers
    /\ active_workers = << >>
    /\ worker_counter = 0
    /\ running = FALSE
    /\ no_narrations_backoff = 0
    /\ time_since_last_no_narration = 0
    /\ run_pc = "idle"
    /\ slept = 0
    /\ created = 0
    /\ executing = {}
    /\ pipe = << >>
    /\ files = << >>
    /\ clock = 0
    /\ returned = NoReturn
    /\ config = DefaultConfig
    /\ voice_call = NoVoiceCall
    /\ ModuleLoaded

Next ==
    \/ RunStart
    \/ LoopWake
    \/ LoopExit
    \/ DrainWake
    \/ Stop
    \/ \E ctor_ok \in BOOLEAN : TaskStart(ctor_ok)
    \/ \E w \in executing, o \in Outcomes : Finish(w, o)
    \/ Tick

Spec == Init /\ [][Next]_vars

(* The event loop runs every callback that is ready and fires every timer *)
(* that is due: a sleep that has lasted long enough returns, a task that   *)
(* was created begins, time passes.  That every execution in flight comes  *)
(* to an end is the hypothesis of the claims checked under LiveSpec.       *)
Fairness ==
    /\ WF_vars(LoopWake)
    /\ WF_vars(LoopExit)
    /\ WF_vars(DrainWake)
    /\ WF_vars(Tick)
    /\ WF_vars(\E ctor_ok \in BOOLEAN : TaskStart(ctor_ok))
    /\ WF_vars(\E w \in executing, o \in Outcomes : Finish(w, o))

LiveSpec == Init /\ [][Next]_vars /\ Fairness

(* A manager configured with max_workers = BurstWorkers, at a moment when  *)
(* that many executions are in flight and each has been processing for     *)
(* more than 30 seconds: the first was launched alone, the others one per  *)
(* pass of the loop once it was past 30 seconds, and run() has just found  *)
(* the pool full and gone back to sleep.  No execution has ended yet.      *)
BurstInit ==
    /\ max_workers = BurstWorkers
    /\ active_workers =
           [w \in 1..BurstWorkers |->
               [processing_time |-> ProcessingThreshold + 1,
                status |-> "processing"]]
    /\ worker_counter = BurstWorkers
    /\ running = TRUE
    /\ no_narrations_backoff = 0
    /\ time_since_last_no_narration = 0
    /\ run_pc = "sleep"
    /\ slept = 0
    /\ created = 0
    /\ executing = 1..BurstWorkers
    /\ pipe = << >>
    /\ files = << >>
    /\ clock = 0
    /\ returned = NoReturn
    /\ config = DefaultConfig
    /\ voice_call = NoVoiceCall
    /\ ModuleLoaded

BurstNext ==
    \/ LoopWake
    \/ LoopExit
    \/ DrainWake
    \/ Stop
    \/ \E ctor_ok \in BOOLEAN : TaskStart(ctor_ok)
    \/ \E w \in executing, o \in Outcomes : Finish(w, o)
    \/ Tick

BurstSpec == BurstInit /\ [][BurstNext]_vars

(* The manager while the remote queue stays empty: every execution gets   *)
(* as far as get_narration() and ends there with the 404 of line 639.     *)
EmptyQueueNext ==
    \/ RunStart
    \/ LoopWake
    \/ TaskStart(TRUE)
    \/ \E w \in executing : Finish(w, "WorkerError_no_narration")
    \/ Tick

EmptyQueueSpec == Init /\ [][EmptyQueueNext]_vars

(* ----------------------- Worker.process_narration ---------------------- *)
(* PipeSpec.  An execution is start_worker() from line 857 to line 926     *)
(* with process_narration() inside it; its steps are the segments between  *)
(* the awaits of process_narration().  What the collaborators answer is    *)
(* chosen freely at each step.  The manager's loop is left out: executions *)
(* begin whenever fewer than PipeConcurrency are in flight.                *)
(*                                                                         *)
(* A text is a sequence of characters.  The message of a WorkerError is a  *)
(* sequence of fragments: the literal parts of the f-string that builds    *)
(* it and the values formatted into it.  returned keeps, for the           *)
(* execution that ended last, the status start_worker() wrote in lines     *)
(* 880-906, the step it ended at, what that step's collaborator answered,  *)
(* the kind of file it had uploaded and the text of the exception that     *)
(* start_worker() caught, if any (str(e), lines 884 and 905).  The manager *)
(* never reads any of these (line 970 drops the task), so Spec and         *)
(* BurstSpec leave returned as it is.                                      *)

\* Python's None where a path may stand
None == [thread |-> "None", timestamp |-> 0, ext |-> "None"]

\* no audio_url yet
NoUrl == [narration_id |-> "", ext |-> "None"]

\* update_narration_audio() has not been called yet
NoPayload == [audio_file_url |-> NoUrl, audio_duration |-> 0]

\* lines 701-704: the body of the POST; int(duration) drops the hundredths
update_payload(url, duration) ==
    [audio_file_url |-> url, audio_duration |-> duration \div 100]

\* line 640 and line 886
NoNarrationPhrase == "No narration available for audio generation"

\* the ids the API may give a narration; "" stands for a missing,
\* null or empty 'id'
JobIds == {"j1", NoNarrationPhrase}

Whitespace == {" ", "\n"}

RECURSIVE lstrip(_)
lstrip(s) ==
    IF s = << >> THEN s
    ELSE IF Head(s) \in Whitespace THEN lstrip(Tail(s)) ELSE s

RECURSIVE rstrip(_)
rstrip(s) ==
    IF s = << >> THEN s
    ELSE IF s[Len(s)] \in Whitespace
         THEN rstrip(SubSeq(s, 1, Len(s) - 1))
         ELSE s

\* str.strip()
strip(s) == rstrip(lstrip(s))

\* a JSON null, None in Python, where a text may stand
Null == <<"None">>

\* what get_narration() may return on a 200: the fields lines 745-762
\* read.  << >> stands for a field that is missing or holds "".
NarrationData ==
    [id : JobIds \cup {""},
     text : {<< >>, <<" ">>, <<"h">>, <<" ", "h", " ">>, Null},
     company_deep_research : {<< >>, <<"h">>, Null},
     profile_deep_research : {<< >>}]

\* where no body was read: the answer was not a 200
NoData ==
    [id |-> "", text |-> << >>, company_deep_research |-> << >>,
     profile_deep_research |-> << >>]

\* line 750: narration_data.get('text', '') gives None for a null, and
\* None has no strip(): AttributeError
text_raises(narration_data) == narration_data.text = Null

\* f"{x}": None is written out as the word None
format(x) == IF x = Null THEN <<"N", "o", "n", "e">> ELSE x

\* lines 750-756, for a text that is a string
text_content(narration_data) ==
    IF strip(narration_data.text) # << >>
    THEN strip(narration_data.text)
    ELSE strip(format(narration_data.company_deep_research)
                  \o <<"\n", "\n">>
                  \o format(narration_data.profile_deep_research))

\* lines 678-681: worker_<thread ident>_<%Y%m%d_%H%M%S>.wav.  Every task
\* runs on the event loop's thread, so the ident is the same for all.
wav_path(timestamp) ==
    [thread |-> "MainThread", timestamp |-> timestamp, ext |-> "wav"]

\* line 181: wav_path.replace('.wav', '.mp3')
mp3_path(path) == [path EXCEPT !.ext = "mp3"]

\* open(path, 'wb') or an encoder writing path: the file exists afterwards
write_file(fs, path, w) ==
    [q \in DOMAIN fs \cup {path} |->
        IF q = path
        THEN (IF path \in DOMAIN fs THEN fs[path] ELSE {}) \cup {w}
        ELSE fs[q]]

\* os.remove on each path that exists, lines 829-837
remove_files(fs, paths) == [q \in DOMAIN fs \ paths |-> fs[q]]

\* lines 823-827
files_to_cleanup(r) ==
    (IF r.wav_file_path # None THEN {r.wav_file_path} ELSE {})
    \cup
    (IF r.mp3_file_path # None /\ r.mp3_file_path # r.wav_file_path
     THEN {r.mp3_file_path} ELSE {})

\* line 798 with the mp3 preferred whether or not the conversion gave one
upload_file_path_always_mp3(r) == mp3_path(r.wav_file_path)

\* line 798
upload_file_path(r) ==
    IF r.mp3_file_path # r.wav_file_path
    THEN r.mp3_file_path
    ELSE r.wav_file_path

\* lines 270-299: the key, and so the URL, holds the narration id and the
\* extension of the uploaded file
audio_url(narration_id, file_path) ==
    [narration_id |-> narration_id, ext |-> file_path.ext]

\* line 886 (and 896): "No narration available for audio generation" in
\* error_msg
no_narrations_available(error_msg) ==
    \E i \in DOMAIN error_msg : error_msg[i] = NoNarrationPhrase

\* lines 883-892: how start_worker() takes a WorkerError with this message
outcome_of_error(error_msg) ==
    IF no_narrations_available(error_msg)
    THEN "WorkerError_no_narration"
    ELSE "WorkerError_other"

\* lines 879-892: the status start_worker() writes for outcome o
status_of(o) ==
    CASE o = "True" -> "completed"
      [] o = "False" -> "failed"
      [] o = "WorkerError_no_narration" -> "no_narrations"
      [] o = "WorkerError_other" -> "error"

\* process_narration() of worker w leaves with outcome o, its locals being
\* r and the files fs: the finally of lines 821-841, then start_worker()
\* lines 879-926.
Leave(w, r, o, fs) ==
    /\ files' = remove_files(fs, files_to_cleanup(r))
    /\ pipe' = [v \in DOMAIN pipe \ {w} |-> pipe[v]]
    /\ executing' = executing \ {w}
    /\ active_workers' = pop_worker(w)
    /\ no_narrations_backoff' = backoff_after_finish(o)
    /\ time_since_last_no_narration' = time_since_after_finish(o)
    /\ returned' = [status |-> status_of(o), at |-> r.pc,
                    result |-> r.result, uploaded |-> r.audio_url.ext,
                    error_msg |-> r.error_msg]
    /\ UNCHANGED <<max_workers, worker_counter, running, run_pc, slept,
                   created, clock>>
    /\ UNCHANGED <<voice_vars, audio_vars>>

\* process_narration() of worker w leaves by a WorkerError with this
\* message: lines 814-817, then as Leave
Raise(w, r, error_msg, fs) ==
    Leave(w, [r EXCEPT !.error_msg = error_msg], outcome_of_error(error_msg),
          fs)

\* worker w goes on to its next await with locals r and files fs
Goto(w, r, fs) ==
    /\ pipe' = [pipe EXCEPT ![w] = r]
    /\ files' = fs
    /\ UNCHANGED <<pool_vars, clock, returned>>
    /\ UNCHANGED <<voice_vars, audio_vars>>

\* the answer res was given to worker w's pending call
Answered(w, res) == [pipe[w] EXCEPT !.result = res]

StartResults == {"ctor_error", "no_api_key", "ok"}

\* start_worker() begins, lines 857-878, and process_narration() runs to
\* its first await, the GET of line 630.  With ctor_error (line 261) or
\* without an API key (line 623) the call is over in this same step.
PipeStart(res) ==
    /\ Cardinality(executing) < PipeConcurrency
    /\ worker_counter < PipeLaunches
    /\ worker_counter' = worker_counter + 1
    /\ LET worker_id == worker_counter + 1 IN
       IF res = "ok" /\ worker_id \notin DOMAIN active_workers
       THEN /\ active_workers' =
                 [v \in DOMAIN active_workers \cup {worker_id} |->
                     IF v = worker_id THEN new_record
                     ELSE active_workers[v]]
            /\ executing' = executing \cup {worker_id}
            /\ pipe' =
                 [v \in DOMAIN pipe \cup {worker_id} |->
                     IF v = worker_id
                     THEN [pc |-> "get_narration", result |-> "none",
                           narration_id |-> "", text_content |-> << >>,
                           file_path |-> None, wav_file_path |-> None,
                           mp3_file_path |-> None, audio_url |-> NoUrl,
                           audio_duration |-> 0, payload |-> NoPayload,
                           error_msg |-> << >>]
                     ELSE pipe[v]]
            /\ UNCHANGED <<no_narrations_backoff, returned>>
       ELSE /\ UNCHANGED <<active_workers, executing, pipe>>
            /\ no_narrations_backoff' =
                 IF res = "no_api_key"
                 THEN backoff_after_finish(outcome_of_error(
                         <<"No server-to-server API key available">>))
                 ELSE backoff_after_finish("False")
            /\ returned' = [status |-> "error", at |-> "get_narration",
                            result |-> res, uploaded |-> "None",
                            error_msg |->
                               IF res = "no_api_key"
                               THEN <<"No server-to-server API key available">>
                               ELSE <<"S3 initialization failed: ">>]
    /\ UNCHANGED <<max_workers, running, time_since_last_no_narration,
                   run_pc, slept, created, files, clock>>
    /\ UNCHANGED <<voice_vars, audio_vars>>

GetResults == {"exception", "404", "error_status", "malformed", "ok"}

\* the statuses other than 200 and 404, and the bodies, that the API may
\* answer the GET with
ErrorStatuses == {"500", "401"}
ResponseTexts == {"", "detail", NoNarrationPhrase}

\* the WorkerError of line 644, with the status and the body
get_narration_error_644(status, response_text) ==
    <<"Get narration failed with status ", status, ": ", response_text>>

\* lines 641-647: the WorkerError of line 644 is raised inside the try of
\* line 642, so the except of line 645 catches it (e) and line 647 raises
\* another in its place, with the status only
get_narration_error(status, response_text) ==
    LET e == get_narration_error_644(status, response_text) IN
    <<"Get narration failed with status ", status>>

\* get_narration() of worker w is answered with this status and body,
\* lines 641-647, and process_narration() leaves by line 817
GetNarrationFails(w, status, response_text) ==
    /\ w \in DOMAIN pipe
    /\ pipe[w].pc = "get_narration"
    /\ Raise(w, Answered(w, "error_status"),
             get_narration_error(status, response_text), files)

\* process_narration() without the check of lines 746-747: a job without
\* an id goes on to text assembly and synthesis
GetNarrationReturns_without_id_check(w, res, narration_data) ==
    /\ w \in DOMAIN pipe
    /\ pipe[w].pc = "get_narration"
    /\ CASE res = "404" ->
              Raise(w, Answered(w, res), <<NoNarrationPhrase>>, files)
         [] res = "error_status" ->
              \E status \in ErrorStatuses, response_text \in ResponseTexts :
                  GetNarrationFails(w, status, response_text)
         [] res \in {"exception", "malformed"} ->
              Leave(w, Answered(w, res), "False", files)
         [] res = "ok" ->
              IF text_raises(narration_data)
              THEN Leave(w, Answered(w, "text_raises"), "False", files)
              ELSE IF text_content(narration_data) = << >>
              THEN Raise(w, Answered(w, "no_text"),
                         <<"No text content available for TTS">>, files)
              ELSE Goto(w, [pipe[w] EXCEPT
                               !.pc = "generate_tts",
                               !.narration_id = narration_data.id,
                               !.text_content = text_content(narration_data)],
                        files)

\* get_narration() answers, lines 630-651, then lines 745-767 up to the
\* POST of line 667.  narration_data is the body of a 200; what line 750
\* raises on a null text is caught at line 818.
GetNarrationReturns(w, res, narration_data) ==
    /\ w \in DOMAIN pipe
    /\ pipe[w].pc = "get_narration"
    /\ CASE res = "404" ->
              Raise(w, Answered(w, res), <<NoNarrationPhrase>>, files)
         [] res = "error_status" ->
              \E status \in ErrorStatuses, response_text \in ResponseTexts :
                  GetNarrationFails(w, status, response_text)
         [] res \in {"exception", "malformed"} ->
              Leave(w, Answered(w, res), "False", files)
         [] res = "ok" ->
              IF narration_data.id = ""
              THEN Raise(w, Answered(w, "no_id"),
                         <<"No narration ID in narration data">>, files)
              ELSE IF text_raises(narration_data)
              THEN Leave(w, Answered(w, "text_raises"), "False", files)
              ELSE IF text_content(narration_data) = << >>
              THEN Raise(w, Answered(w, "no_text"),
                         <<"No text content available for TTS">>, files)
              ELSE Goto(w, [pipe[w] EXCEPT
                               !.pc = "generate_tts",
                               !.narration_id = narration_data.id,
                               !.text_content = text_content(narration_data)],
                        files)

TtsResults == {"exception", "error_status", "ok"}

\* the TTS server answers, lines 667-689 up to the first chunk: the file
\* is named after the clock and opened for writing
TtsResponds(w, res) ==
    /\ w \in DOMAIN pipe
    /\ pipe[w].pc = "generate_tts"
    /\ CASE res = "error_status" ->
              Raise(w, Answered(w, res),
                    <<"TTS generation failed with status">>, files)
         [] res = "exception" ->
              Leave(w, Answered(w, res), "False", files)
         [] res = "ok" ->
              LET file_path == wav_path(clock) IN
              Goto(w, [pipe[w] EXCEPT !.pc = "stream",
                                      !.file_path = file_path],
                   write_file(files, file_path, w))

(* The measuring of durations, defined here for the pipeline, is part of  *)
(* AudioProcessor: see AudioSpec below.                                    *)
\* what 'ffmpeg -version' does: lines 96-101
FfmpegVersions == {"ok", "nonzero", "timeout", "not_found", "other_error"}

\* _check_ffmpeg_availability(), lines 94-101: an exception that is none
\* of the three of line 100 (a PermissionError, say) goes up to the caller
_check_ffmpeg_availability(env) ==
    CASE env.ffmpeg_version = "ok" -> "True"
      [] env.ffmpeg_version \in {"nonzero", "timeout", "not_found"} -> "False"
      [] OTHER -> "raises"

\* what ffmpeg writes after 'Duration:' on stderr, as line 225 splits it:
\* hours, minutes and seconds, the seconds in hundredths; -1 is a part that
\* float() does not take.  << >> is an stderr without a Duration line,
\* <<-1>> is 'Duration: N/A'.
StderrReports ==
    {<< >>, <<-1>>, <<0, 0, 250>>, <<0, 1, 5>>, <<0, -1, 0>>}

\* what a measurement may meet: AudioSegment.from_mp3 gives an audio of ms
\* milliseconds or raises; the ffmpeg run of line 218 ends or raises
\* (and then writes no stderr), as it does where ffmpeg does not answer
\* 'ffmpeg -version' properly
DurationEnvs ==
    {env \in [pydub : {"ok", "raises"},
              ms : {0, 1234, 2500},
              ffmpeg_version : FfmpegVersions,
              ffmpeg_run : {"ended", "raises"},
              stderr : StderrReports] :
        /\ env.pydub = "ok" <=> env.ms # 0
        /\ env.ffmpeg_version # "ok" => env.ffmpeg_run = "raises"
        /\ env.ffmpeg_run = "raises" => env.stderr = << >>}

\* round(x, 2) of a number of milliseconds taken as seconds, in hundredths
\* (no ms above ends in 5)
round_ms(ms) == (ms + 5) \div 10

\* lines 221-231: the first 'Duration:' line whose text splits in three
\* gives the seconds; a part float() refuses raises ValueError
parse_duration(stderr) ==
    IF Len(stderr) # 3
    THEN [outcome |-> "no_duration", duration |-> 0]
    ELSE IF \E i \in 1..3 : stderr[i] < 0
    THEN [outcome |-> "raises", duration |-> 0]
    ELSE [outcome |-> "returned",
          duration |-> stderr[1] * 360000 + stderr[2] * 6000 + stderr[3]]

\* get_mp3_duration(), lines 201-239: the methods gone into and the
\* duration returned.  Whatever raises inside the try ends at line 239.
get_mp3_duration(pydub_available, env) ==
    IF pydub_available
    THEN IF env.pydub = "ok"
         THEN [tried |-> <<"pydub">>, duration |-> round_ms(env.ms)]
         ELSE [tried |-> <<"pydub">>, duration |-> 0]
    ELSE IF _check_ffmpeg_availability(env) = "True"
              /\ env.ffmpeg_run = "ended"
              /\ parse_duration(env.stderr).outcome = "returned"
         THEN [tried |-> <<"ffmpeg">>,
               duration |-> parse_duration(env.stderr).duration]
         ELSE [tried |-> <<"ffmpeg">>, duration |-> 0]

\* what wave.open() finds in a .wav: a header with this many frames at
\* this rate, or nothing it can read (no file, no RIFF header, a file cut
\* short)
WavReads ==
    {[readable |-> FALSE, frames |-> 0, rate |-> 0],
     [readable |-> TRUE, frames |-> 0, rate |-> 24000],
     [readable |-> TRUE, frames |-> 60240, rate |-> 24000],
     [readable |-> TRUE, frames |-> 12345, rate |-> 24000],
     [readable |-> TRUE, frames |-> 2, rate |-> 3],
     [readable |-> TRUE, frames |-> 100, rate |-> 0]}

\* no .wav was read
NoWavRead == [readable |-> FALSE, frames |-> 0, rate |-> 0]

\* round(frames / float(sample_rate), 2), in hundredths (no read above
\* falls half way between two hundredths)
round_frames(frames, rate) == (200 * frames + rate) \div (2 * rate)

\* get_audio_duration() without the except of lines 89-91
get_audio_duration_raising(read) ==
    IF ~read.readable \/ read.rate = 0
    THEN [outcome |-> "raises", duration |-> 0]
    ELSE [outcome |-> "returned",
          duration |-> round_frames(read.frames, read.rate)]

\* get_audio_duration(), lines 81-91: wave.open() or the division by a
\* rate of 0 raises, and line 91 returns 0.0
get_audio_duration(read) ==
    IF ~read.readable \/ read.rate = 0
    THEN [outcome |-> "returned", duration |-> 0]
    ELSE [outcome |-> "returned",
          duration |-> round_frames(read.frames, read.rate)]

ConvertResults == {"converted", "failed_partial", "failed_clean"}

\* convert_wav_to_mp3, lines 177-198, as process_narration() takes it in
\* lines 774-781: r with mp3_file_path set, and the files afterwards.
\* failed_partial is a conversion that fails after the encoder has begun
\* to write the .mp3.
converted_locals(r, conv, fs) ==
    IF r.wav_file_path \in DOMAIN fs /\ conv = "converted"
    THEN [r EXCEPT !.mp3_file_path = mp3_path(r.wav_file_path)]
    ELSE [r EXCEPT !.mp3_file_path = r.wav_file_path]

converted_files(r, conv, fs, w) ==
    IF r.wav_file_path \in DOMAIN fs /\ conv \in {"converted", "failed_partial"}
    THEN write_file(fs, mp3_path(r.wav_file_path), w)
    ELSE fs

\* what the measurements of lines 785-794 may meet in a running worker,
\* where PYDUB_AVAILABLE is True: AudioSegment.from_mp3 gives an audio of
\* 1234 or 2500 ms or raises; wave.open() reads 60240 frames at 24000 a
\* second or nothing
PipeDurationEnvs == {env \in DurationEnvs : env.ffmpeg_version = "not_found"}
PipeWavReads == {read \in WavReads : ~read.readable \/ read.frames = 60240}

\* lines 785-794 without the fallback of lines 788-791
measured_duration_no_fallback(r, pydub_available, env, read) ==
    IF r.mp3_file_path # r.wav_file_path /\ r.mp3_file_path.ext = "mp3"
    THEN get_mp3_duration(pydub_available, env).duration
    ELSE get_audio_duration(read).duration

\* lines 785-794: audio_duration, r being the locals after the conversion
measured_duration(r, pydub_available, env, read) ==
    IF r.mp3_file_path # r.wav_file_path /\ r.mp3_file_path.ext = "mp3"
    THEN IF get_mp3_duration(pydub_available, env).duration = 0
         THEN get_audio_duration(read).duration
         ELSE get_mp3_duration(pydub_available, env).duration
    ELSE get_audio_duration(read).duration

\* the chunks of line 688 have ended and generate_tts() has returned the
\* path: lines 767-799 up to the upload, the conversion ending as conv and
\* the measurements meeting env and read.  Of a file that is not there
\* nothing is read.
StreamCompletes(w, conv, env, read) ==
    /\ w \in DOMAIN pipe
    /\ pipe[w].pc = "stream"
    /\ LET r == [pipe[w] EXCEPT !.wav_file_path = pipe[w].file_path]
           c == converted_locals(r, conv, files)
           fs == converted_files(r, conv, files, w)
       IN  /\ c.wav_file_path \notin DOMAIN fs => ~read.readable
           /\ (c.mp3_file_path # c.wav_file_path
                 /\ c.mp3_file_path \notin DOMAIN fs) => env.pydub = "raises"
           /\ Goto(w, [c EXCEPT
                         !.pc = "upload",
                         !.audio_duration =
                            measured_duration(c, PYDUB_AVAILABLE, env, read)],
                   fs)

StreamResults == {"complete", "broken"}

\* the chunks of line 688 end.  complete: generate_tts() returns the path,
\* then lines 767-799 up to the upload.  broken: iter_chunked raises, which
\* leaves generate_tts() before line 692 and process_narration() by line
\* 818, with wav_file_path still None.
StreamEnds(w, res, conv) ==
    /\ w \in DOMAIN pipe
    /\ pipe[w].pc = "stream"
    /\ CASE res = "broken" ->
              Leave(w, Answered(w, res), "False", files)
         [] res = "complete" ->
              \E env \in PipeDurationEnvs, read \in PipeWavReads :
                  StreamCompletes(w, conv, env, read)

UploadResults == {"ok", "error"}

\* process_narration() with the WorkerError of upload_audio() caught and
\* logged: the report goes out without a URL
UploadReturns_ignoring_error(w, res) ==
    /\ w \in DOMAIN pipe
    /\ pipe[w].pc = "upload"
    /\ IF res = "ok" /\ upload_file_path(pipe[w]) \in DOMAIN files
       THEN Goto(w, [pipe[w] EXCEPT
                        !.pc = "update",
                        !.audio_url = audio_url(pipe[w].narration_id,
                                                upload_file_path(pipe[w])),
                        !.payload =
                           update_payload(
                              audio_url(pipe[w].narration_id,
                                        upload_file_path(pipe[w])),
                              pipe[w].audio_duration)],
                 files)
       ELSE Goto(w, [pipe[w] EXCEPT
                        !.pc = "update",
                        !.payload = update_payload(NoUrl,
                                                   pipe[w].audio_duration)],
                 files)

\* upload_audio() answers, lines 263-308, then line 803 up to its POST,
\* which carries the payload of lines 701-704.
\* boto3 reads the file: without it there is no upload.  The text of the
\* exception upload_file raises on an S3 error names the key it was
\* uploading to, and the key holds narration_id (line 284); line 308
\* formats that text into the WorkerError.
UploadReturns(w, res) ==
    /\ w \in DOMAIN pipe
    /\ pipe[w].pc = "upload"
    /\ IF upload_file_path(pipe[w]) \notin DOMAIN files
       THEN Raise(w, Answered(w, "no_file"),
                  <<"S3 upload error: ", "No such file or directory">>, files)
       ELSE IF res = "ok"
       THEN Goto(w, [pipe[w] EXCEPT
                        !.pc = "update",
                        !.audio_url = audio_url(pipe[w].narration_id,
                                                upload_file_path(pipe[w])),
                        !.payload =
                           update_payload(
                              audio_url(pipe[w].narration_id,
                                        upload_file_path(pipe[w])),
                              pipe[w].audio_duration)],
                 files)
       ELSE Raise(w, Answered(w, res),
                  <<"S3 upload error: ", "Failed to upload to narrations/",
                    pipe[w].narration_id>>, files)

UpdateResults == {"exception", "404", "error_status", "ok", "ok_no_webhook"}

\* update_narration_audio() answers, lines 706-720, then lines 807-812:
\* without a webhook url send_narration_summary() returns at once
UpdateReturns(w, res) ==
    /\ w \in DOMAIN pipe
    /\ pipe[w].pc = "update"
    /\ CASE res = "404" ->
              Raise(w, Answered(w, res), <<"Narration not found">>, files)
         [] res = "error_status" ->
              Raise(w, Answered(w, res),
                    <<"Update narration failed with status">>, files)
         [] res = "exception" ->
              Leave(w, Answered(w, res), "False", files)
         [] res = "ok_no_webhook" ->
              Leave(w, Answered(w, res), "True", files)
         [] res = "ok" ->
              Goto(w, [pipe[w] EXCEPT !.pc = "notify"], files)

\* what becomes of send_narration_summary(): the audio is sent, the
\* download of line 424 answers other than 200, the webhook answers other
\* than success, or something in lines 326-489 raises
NotifyResults == {"sent", "download_failed", "webhook_rejected", "exception"}

\* send_narration_summary() with the except of lines 491-492 missing: what
\* it raises reaches line 818
notify_outcome_propagating(res) ==
    IF res = "exception" THEN "False" ELSE "True"

\* lines 491-493 and 812: whatever happened inside, send_narration_summary()
\* returns and process_narration() returns True
notify_outcome(res) == "True"

\* send_narration_summary() returns, lines 491-523, then line 812
NotifyReturns(w, res) ==
    /\ w \in DOMAIN pipe
    /\ pipe[w].pc = "notify"
    /\ Leave(w, Answered(w, res), notify_outcome(res), files)

\* the wall clock moves to the next second
ClockTick ==
    /\ clock < MaxClock
    /\ clock' = clock + 1
    /\ UNCHANGED <<pool_vars, pipe, files, returned>>
    /\ UNCHANGED <<voice_vars, audio_vars>>

\* a manager that has been constructed and whose run() is in its loop
PipeInit ==
    /\ max_workers = PipeConcurrency
    /\ active_workers = << >>
    /\ worker_counter = 0
    /\ running = TRUE
    /\ no_narrations_backoff = 0
    /\ time_since_last_no_narration = 0
    /\ run_pc = "sleep"
    /\ slept = 0
    /\ created = 0
    /\ executing = {}
    /\ pipe = << >>
    /\ files = << >>
    /\ clock = 0
    /\ returned = NoReturn
    /\ config = DefaultConfig
    /\ voice_call = NoVoiceCall
    /\ ModuleLoaded

PipeNext ==
    \/ \E res \in StartResults : PipeStart(res)
    \/ \E w \in executing, res \in GetResults :
          \E narration_data \in (IF res = "ok" THEN NarrationData ELSE {NoData}) :
              GetNarrationReturns(w, res, narration_data)
    \/ \E w \in executing, res \in TtsResults : TtsResponds(w, res)
    \/ \E w \in executing, res \in StreamResults, conv \in ConvertResults :
          StreamEnds(w, res, conv)
    \/ \E w \in executing, res \in UploadResults : UploadReturns(w, res)
    \/ \E w \in executing, res \in UpdateResults : UpdateReturns(w, res)
    \/ \E w \in executing, res \in NotifyResults : NotifyReturns(w, res)
    \/ ClockTick

PipeSpec == PipeInit /\ [][PipeNext]_vars

(* The same executions while the wall clock stays within one second: what  *)
(* an execution does with its job does not depend on the second it runs in.*)
JobNext ==
    \/ \E res \in StartResults : PipeStart(res)
    \/ \E w \in executing, res \in GetResults :
          \E narration_data \in (IF res = "ok" THEN NarrationData ELSE {NoData}) :
              GetNarrationReturns(w, res, narration_data)
    \/ \E w \in executing, res \in TtsResults : TtsResponds(w, res)
    \/ \E w \in executing, res \in StreamResults, conv \in ConvertResults :
          StreamEnds(w, res, conv)
    \/ \E w \in executing, res \in UploadResults : UploadReturns(w, res)
    \/ \E w \in executing, res \in UpdateResults : UpdateReturns(w, res)
    \/ \E w \in executing, res \in NotifyResults : NotifyReturns(w, res)

JobSpec == PipeInit /\ [][JobNext]_vars

(* The executions of JobSpec while run() is in one sleep of line 973 and   *)
(* the seconds of that sleep go by: the time since the last no_work and    *)
(* the age of the records move under the executions.                       *)
TimedJobNext ==
    \/ JobNext
    \/ Tick

TimedJobSpec == PipeInit /\ [][TimedJobNext]_vars

(* ---------------- DiscordNotifier.send_narration_summary --------------- *)
(* NotifySpec.  Calls of send_narration_summary(), from await to await,    *)
(* with the temporary files they leave under outputs/.  pipe holds the     *)
(* locals of each call in flight: where it is, the two file names (None    *)
(* until chosen) and, for the claims, the paths it has written (wrote).    *)
(* A name holds the narration id and the second of the clock, so two calls *)
(* for one narration within one second share their files.  returned keeps, *)
(* of the call that ended last, that it returned or raised, where, the     *)
(* paths it had written and what os.remove did during its cleanup.         *)

\* lines 401 and 429: temp_discord_<kind>_<narration_id>_<timestamp><ext>
temp_path(kind, narration_id, timestamp, ext) ==
    [thread |-> kind, narration_id |-> narration_id,
     timestamp |-> timestamp, ext |-> ext]

\* what os.remove does where the file exists
RemoveResults == {"ok", "raises"}

\* lines 496-519 inside the try instead of a finally: the files go only
\* when nothing was raised before
summary_cleanup_on_success_only(r, fs, rm) ==
    [raises |-> FALSE,
     files |-> IF r.raised \/ rm = "raises"
               THEN fs
               ELSE remove_files(fs, {r.temp_audio_file, r.temp_text_file})]

\* the finally of lines 493-523: each name that was chosen is removed if
\* the file exists, and what os.remove raises is caught (lines 505, 517):
\* the files afterwards, and whether the finally raises
summary_cleanup(r, fs, rm) ==
    LET named == (IF r.temp_audio_file # None THEN {r.temp_audio_file}
                  ELSE {})
                 \cup
                 (IF r.temp_text_file # None THEN {r.temp_text_file}
                  ELSE {})
    IN  [raises |-> FALSE,
         files |-> IF rm = "raises" THEN fs ELSE remove_files(fs, named)]

\* send_narration_summary() of worker w is over, its locals being r and
\* the files fs: the except of lines 491-492 if something was raised, the
\* finally of lines 493-523, and the return
SummaryEnds(w, r, fs, rm) ==
    /\ files' = summary_cleanup(r, fs, rm).files
    /\ pipe' = [v \in DOMAIN pipe \ {w} |-> pipe[v]]
    /\ returned' = [status |-> IF summary_cleanup(r, fs, rm).raises
                               THEN "raised" ELSE "returned",
                    at |-> r.pc, result |-> r.result,
                    wrote |-> r.wrote, remove |-> rm, uploaded |-> "None",
                    error_msg |-> << >>]
    /\ UNCHANGED <<max_workers, active_workers, running,
                   no_narrations_backoff, time_since_last_no_narration,
                   run_pc, slept, created, executing, clock>>
    /\ UNCHANGED <<voice_vars, audio_vars>>

\* worker w's call goes on to its next await
SummaryGoto(w, r, fs) ==
    /\ pipe' = [v \in DOMAIN pipe \cup {w} |-> IF v = w THEN r ELSE pipe[v]]
    /\ files' = fs
    /\ UNCHANGED <<max_workers, active_workers, running,
                   no_narrations_backoff, time_since_last_no_narration,
                   run_pc, slept, created, executing, clock, returned>>
    /\ UNCHANGED <<voice_vars, audio_vars>>

\* how lines 326-421 go: without a webhook url the call returns at line
\* 322; something raises before a file name is chosen; the text is short
\* enough for the embed; or the text goes into a file (lines 399-419),
\* which is written, cannot be opened, or is begun when f.write raises
SummaryStarts ==
    {"no_webhook", "raises", "embedded", "text_file", "text_file_no_open",
     "text_file_partial"}

\* send_narration_summary() is called for a narration whose audio_url ends
\* in ext: lines 320-424 up to the GET of the audio
SummaryCalled(narration_id, ext, res, rm) ==
    /\ Cardinality(DOMAIN pipe) < PipeConcurrency
    /\ worker_counter < PipeLaunches
    /\ worker_counter' = worker_counter + 1
    /\ LET w == worker_counter + 1
           text == temp_path("temp_discord_text", narration_id, clock, "txt")
           r == [pc |-> "summary", result |-> res,
                 narration_id |-> narration_id, ext |-> ext,
                 temp_audio_file |-> None, temp_text_file |-> None,
                 wrote |-> {}, raised |-> FALSE]
           named == [r EXCEPT !.temp_text_file = text]
           written == [named EXCEPT !.wrote = {text}]
       IN  CASE res = "no_webhook" ->
                  /\ returned' = [status |-> "returned", at |-> "summary",
                                  result |-> res, wrote |-> {},
                                  remove |-> "ok", uploaded |-> "None",
                                  error_msg |-> << >>]
                  /\ UNCHANGED <<pipe, files>>
                  /\ UNCHANGED <<max_workers, active_workers, running,
                                 no_narrations_backoff,
                                 time_since_last_no_narration, run_pc, slept,
                                 created, executing, clock>>
                  /\ UNCHANGED <<voice_vars, audio_vars>>
             [] res = "raises" ->
                  SummaryEnds(w, [r EXCEPT !.raised = TRUE], files, rm)
             [] res = "embedded" ->
                  SummaryGoto(w, [r EXCEPT !.pc = "download"], files)
             [] res = "text_file" ->
                  SummaryGoto(w, [written EXCEPT !.pc = "download"],
                              write_file(files, text, w))
             [] res = "text_file_no_open" ->
                  SummaryEnds(w, [named EXCEPT !.raised = TRUE], files, rm)
             [] res = "text_file_partial" ->
                  SummaryEnds(w, [written EXCEPT !.raised = TRUE],
                              write_file(files, text, w), rm)

\* what the GET of line 424 gives: a 200 and a file that can be opened for
\* writing, a 200 and an open() that raises, another status, or an
\* exception of the session
DownloadResults == {"200", "200_no_open", "other_status", "exception"}

\* the GET of the audio answers: lines 424-436 up to the first chunk, or
\* lines 469-478 up to the POST of the fallback message
DownloadResponds(w, res, rm) ==
    /\ w \in DOMAIN pipe
    /\ pipe[w].pc = "download"
    /\ UNCHANGED worker_counter
    /\ LET r == [pipe[w] EXCEPT !.result = res]
           audio == temp_path("temp_discord_audio", r.narration_id, clock,
                              r.ext)
           named == [r EXCEPT !.temp_audio_file = audio]
       IN  CASE res = "exception" ->
                  SummaryEnds(w, [r EXCEPT !.raised = TRUE], files, rm)
             [] res = "other_status" ->
                  SummaryGoto(w, [r EXCEPT !.pc = "post"], files)
             [] res = "200_no_open" ->
                  SummaryEnds(w, [named EXCEPT !.raised = TRUE], files, rm)
             [] res = "200" ->
                  SummaryGoto(w, [named EXCEPT !.pc = "chunks",
                                               !.wrote = @ \cup {audio}],
                              write_file(files, audio, w))

\* the chunks of line 436 end.  complete: lines 438-459 up to the POST;
\* the files are read back, and one that is gone by then (another call
\* with the same names has cleaned up) raises.  broken: iter_chunked raises.
DownloadEnds(w, res, rm) ==
    /\ w \in DOMAIN pipe
    /\ pipe[w].pc = "chunks"
    /\ UNCHANGED worker_counter
    /\ LET r == [pipe[w] EXCEPT !.result = res] IN
       IF res = "complete"
          /\ r.temp_audio_file \in DOMAIN files
          /\ (r.temp_text_file # None => r.temp_text_file \in DOMAIN files)
       THEN SummaryGoto(w, [r EXCEPT !.pc = "post"], files)
       ELSE SummaryEnds(w, [r EXCEPT !.raised = TRUE], files, rm)

\* the POST to the webhook is answered as expected, with another status,
\* or the session raises
PostResults == {"sent", "webhook_rejected", "exception"}

\* the POST of line 459 or 478 answers: lines 460-487
PostResponds(w, res, rm) ==
    /\ w \in DOMAIN pipe
    /\ pipe[w].pc = "post"
    /\ UNCHANGED worker_counter
    /\ SummaryEnds(w, [pipe[w] EXCEPT !.result = res,
                                      !.raised = (res = "exception")],
                   files, rm)

\* the wall clock moves on while calls are in flight
NotifyClockTick ==
    /\ clock < MaxClock
    /\ clock' = clock + 1
    /\ UNCHANGED <<pool_vars, pipe, files, returned>>
    /\ UNCHANGED <<voice_vars, audio_vars>>

NotifyNext ==
    \/ \E narration_id \in JobIds, ext \in {"mp3", "wav"},
          res \in SummaryStarts, rm \in RemoveResults :
          SummaryCalled(narration_id, ext, res, rm)
    \/ \E w \in DOMAIN pipe, res \in DownloadResults, rm \in RemoveResults :
          DownloadResponds(w, res, rm)
    \/ \E w \in DOMAIN pipe, res \in {"complete", "broken"},
          rm \in RemoveResults :
          DownloadEnds(w, res, rm)
    \/ \E w \in DOMAIN pipe, res \in PostResults, rm \in RemoveResults :
          PostResponds(w, res, rm)
    \/ NotifyClockTick

NotifySpec == PipeInit /\ [][NotifyNext]_vars

(* ------------------------ VoiceSelector.get_voice ---------------------- *)
(* VoiceSpec.  get_voice() is a static method of two arguments that draws  *)
(* on random.choice(): the draws are a third argument here.  A string is   *)
(* a sequence of characters; NoHint is target_gender = None.               *)

\* lines 539-540
FEMALE_VOICES == <<"tara", "leah", "mia">>
MALE_VOICES == <<"leo", "dan", "zac">>

\* lines 558 and 581, lines 562 and 587
FemaleWords ==
    {<<"f", "e", "m", "a", "l", "e">>, <<"w", "o", "m", "a", "n">>, <<"g", "i", "r", "l">>, <<"f">>}
MaleWords ==
    {<<"m", "a", "l", "e">>, <<"m", "a", "n">>, <<"b", "o", "y">>, <<"m">>}

\* target_gender = None
NoHint == <<"None">>

UpperCase ==
    <<"A", "B", "C", "D", "E", "F", "G", "H", "I", "J", "K", "L", "M",
      "N", "O", "P", "Q", "R", "S", "T", "U", "V", "W", "X", "Y", "Z">>
LowerCase ==
    <<"a", "b", "c", "d", "e", "f", "g", "h", "i", "j", "k", "l", "m",
      "n", "o", "p", "q", "r", "s", "t", "u", "v", "w", "x", "y", "z">>

\* str.lower() on one character
lower_char(c) ==
    IF \E i \in DOMAIN UpperCase : UpperCase[i] = c
    THEN LowerCase[CHOOSE i \in DOMAIN UpperCase : UpperCase[i] = c]
    ELSE c

\* str.lower()
lower(s) == [i \in DOMAIN s |-> lower_char(s[i])]

\* x in list
in_list(x, list) == \E i \in DOMAIN list : list[i] = x

\* what random.choice() gives during one call: the coin of line 570 and
\* the place picked in a list of three voices
RandomDraws == [coin : BOOLEAN, pick : DOMAIN FEMALE_VOICES]

\* the values target_gender is given
Hints ==
    {NoHint, << >>, <<" ">>,
     <<"f", "e", "m", "a", "l", "e">>,
     <<"F", "E", "M", "A", "L", "E">>,
     <<"F", "e", "m", "a", "l", "e">>,
     <<" ", "f", "e", "m", "a", "l", "e", " ">>,
     <<"w", "o", "m", "a", "n">>,
     <<"G", "i", "r", "l">>,
     <<"f">>,
     <<"F">>,
     <<"m", "a", "l", "e">>,
     <<"M", "A", "L", "E">>,
     <<"M", "a", "n">>,
     <<"b", "o", "y", " ">>,
     <<"m">>,
     <<"M">>,
     <<"f", "e", "m">>,
     <<"f", "e", "m", "a", "l", "e", "s">>,
     <<"o", "t", "h", "e", "r">>,
     <<"f", "e", " ", "m", "a", "l", "e">>,
     <<"x">>}

\* the values config.voice is given: the six voices, one in another case,
\* one that is in neither list
ConfigVoices == {"tara", "leah", "mia", "leo", "dan", "zac", "Tara", "nova"}

\* if target_gender: (lines 556 and 579)
truthy(target_gender) == target_gender # NoHint /\ target_gender # << >>

\* get_voice() without the .lower() of line 580
get_voice_case_sensitive(cfg, target_gender, rnd) ==
    LET gender_lower == strip(target_gender) IN
    IF cfg.use_random_voice
    THEN IF truthy(target_gender) /\ lower(gender_lower) \in FemaleWords
         THEN FEMALE_VOICES[rnd.pick]
         ELSE IF truthy(target_gender) /\ lower(gender_lower) \in MaleWords
         THEN MALE_VOICES[rnd.pick]
         ELSE IF rnd.coin THEN FEMALE_VOICES[rnd.pick]
              ELSE MALE_VOICES[rnd.pick]
    ELSE IF truthy(target_gender) /\ gender_lower \in FemaleWords
            /\ ~in_list(cfg.voice, FEMALE_VOICES)
         THEN FEMALE_VOICES[rnd.pick]
         ELSE IF truthy(target_gender) /\ gender_lower \in MaleWords
                 /\ ~in_list(cfg.voice, MALE_VOICES)
         THEN MALE_VOICES[rnd.pick]
         ELSE cfg.voice

\* get_voice() with the fall-through of lines 569-576 also where
\* use_random_voice is false
get_voice_random_fallback(cfg, target_gender, rnd) ==
    LET gender_lower == strip(lower(target_gender)) IN
    IF truthy(target_gender) /\ gender_lower \in FemaleWords
       /\ (cfg.use_random_voice \/ ~in_list(cfg.voice, FEMALE_VOICES))
    THEN FEMALE_VOICES[rnd.pick]
    ELSE IF truthy(target_gender) /\ gender_lower \in MaleWords
            /\ (cfg.use_random_voice \/ ~in_list(cfg.voice, MALE_VOICES))
    THEN MALE_VOICES[rnd.pick]
    ELSE IF truthy(target_gender)
            /\ (gender_lower \in FemaleWords \/ gender_lower \in MaleWords)
    THEN cfg.voice
    ELSE IF rnd.coin THEN FEMALE_VOICES[rnd.pick]
         ELSE MALE_VOICES[rnd.pick]

\* get_voice() with the fall-through of lines 569-576 handing back
\* config.voice as line 598 does
get_voice_random_keeps_default(cfg, target_gender, rnd) ==
    LET gender_lower == strip(lower(target_gender)) IN
    IF truthy(target_gender) /\ gender_lower \in FemaleWords
       /\ (cfg.use_random_voice \/ ~in_list(cfg.voice, FEMALE_VOICES))
    THEN FEMALE_VOICES[rnd.pick]
    ELSE IF truthy(target_gender) /\ gender_lower \in MaleWords
            /\ (cfg.use_random_voice \/ ~in_list(cfg.voice, MALE_VOICES))
    THEN MALE_VOICES[rnd.pick]
    ELSE cfg.voice

\* lines 554-598
get_voice(cfg, target_gender, rnd) ==
    LET gender_lower == strip(lower(target_gender)) IN
    IF cfg.use_random_voice
    THEN IF truthy(target_gender) /\ gender_lower \in FemaleWords
         THEN FEMALE_VOICES[rnd.pick]
         ELSE IF truthy(target_gender) /\ gender_lower \in MaleWords
         THEN MALE_VOICES[rnd.pick]
         ELSE IF rnd.coin THEN FEMALE_VOICES[rnd.pick]
              ELSE MALE_VOICES[rnd.pick]
    ELSE IF truthy(target_gender) /\ gender_lower \in FemaleWords
            /\ ~in_list(cfg.voice, FEMALE_VOICES)
         THEN FEMALE_VOICES[rnd.pick]
         ELSE IF truthy(target_gender) /\ gender_lower \in MaleWords
                 /\ ~in_list(cfg.voice, MALE_VOICES)
         THEN MALE_VOICES[rnd.pick]
         ELSE cfg.voice

\* one call of VoiceSelector.get_voice(config, target_gender)
GetVoice ==
    /\ \E target_gender \in Hints, rnd \in RandomDraws :
          voice_call' = [called |-> TRUE,
                         target_gender |-> target_gender,
                         selected_voice |-> get_voice(config, target_gender, rnd),
                         job_gender |-> target_gender,
                         chosen_voice |-> ""]
    /\ UNCHANGED <<pool_vars, pipe_vars, config, audio_vars>>

\* any WorkerConfig, before the first call
VoiceInit ==
    /\ max_workers = 1
    /\ active_workers = << >>
    /\ worker_counter = 0
    /\ running = FALSE
    /\ no_narrations_backoff = 0
    /\ time_since_last_no_narration = 0
    /\ run_pc = "idle"
    /\ slept = 0
    /\ created = 0
    /\ executing = {}
    /\ pipe = << >>
    /\ files = << >>
    /\ clock = 0
    /\ returned = NoReturn
    /\ config \in [voice : ConfigVoices, use_random_voice : BOOLEAN]
    /\ voice_call = NoVoiceCall
    /\ ModuleLoaded

VoiceNext == GetVoice

VoiceSpec == VoiceInit /\ [][VoiceNext]_vars

(* SummarySpec.  One job on its way through generate_tts() and, later,     *)
(* send_narration_summary(): each reads 'target_gender' from the job and   *)
(* calls get_voice() with the worker's config and draws of its own.        *)
(* voice_call keeps the job's field (job_gender), what generate_tts()      *)
(* passed and was given (target_gender, selected_voice) and the voice the  *)
(* summary names (chosen_voice, "" before the summary is made).            *)

\* a job without the key 'target_gender'
Missing == <<"missing">>

\* the values of the job's 'target_gender': a string, null, or no key
JobGenders == Hints \cup {Missing}

\* line 764: narration_data.get('target_gender', None)
tts_gender(job_gender) ==
    IF job_gender = Missing THEN NoHint ELSE job_gender

\* line 339: narration_data.get('target_gender', 'Unknown')
summary_gender(job_gender) ==
    IF job_gender = Missing
    THEN <<"U", "n", "k", "n", "o", "w", "n">>
    ELSE job_gender

\* generate_tts(text_content, target_gender), lines 764 and 653-664: the
\* voice that goes into the payload of the TTS request
GenerateTts(job_gender, rnd) ==
    /\ ~voice_call.called
    /\ voice_call' = [called |-> TRUE,
                      target_gender |-> tts_gender(job_gender),
                      selected_voice |->
                         get_voice(config, tts_gender(job_gender), rnd),
                      job_gender |-> job_gender,
                      chosen_voice |-> ""]
    /\ UNCHANGED <<pool_vars, pipe_vars, config, audio_vars>>

\* send_narration_summary() for the same job, lines 339-342: the voice
\* that goes into the embed as 'Chosen Voice'
SendNarrationSummary(rnd) ==
    /\ voice_call.called
    /\ voice_call.chosen_voice = ""
    /\ voice_call' =
          [voice_call EXCEPT !.chosen_voice =
              get_voice(config, summary_gender(voice_call.job_gender), rnd)]
    /\ UNCHANGED <<pool_vars, pipe_vars, config, audio_vars>>

SummaryNext ==
    \/ \E job_gender \in JobGenders, rnd \in RandomDraws :
          GenerateTts(job_gender, rnd)
    \/ \E rnd \in RandomDraws : SendNarrationSummary(rnd)

SummarySpec == VoiceInit /\ [][SummaryNext]_vars

(* ----------------------------- AudioProcessor -------------------------- *)
(* AudioSpec.  The module is imported, .wav files appear under outputs/    *)
(* and convert_wav_to_mp3(), get_mp3_duration() and get_audio_duration()   *)
(* are called on them.                                                     *)
(* What pydub and the ffmpeg executable do is chosen freely at each call   *)
(* (env).  A duration is a whole number of hundredths of a second.         *)
(* audio_call keeps the file the call was about, whether it was there, the *)
(* env, the conversion or measurement methods the call went into, in order *)
(* (tried), and what came back: a path, a duration or a WorkerError.       *)

\* lines 29-44: the module body, with pydub importing or not.  In the
\* except branch line 34 raises NameError (logger is bound at line 44):
\* the body stops there and AudioProcessor is never defined.
ModuleImport(pydub_imports) ==
    /\ imported = "no"
    /\ IF pydub_imports
       THEN imported' = "loaded" /\ PYDUB_AVAILABLE' = TRUE
       ELSE imported' = "NameError" /\ PYDUB_AVAILABLE' = FALSE
    /\ UNCHANGED <<pool_vars, pipe_vars, voice_vars, audio_call>>

\* convert_wav_to_mp3_pydub(), lines 115-133
convert_wav_to_mp3_pydub(pydub_available, env) ==
    IF ~pydub_available THEN FALSE ELSE env.pydub = "ok"

\* convert_wav_to_mp3_ffmpeg(), lines 136-168
convert_wav_to_mp3_ffmpeg(env) ==
    IF _check_ffmpeg_availability(env) # "True"
    THEN FALSE
    ELSE env.ffmpeg_run = "returncode0"

\* what a conversion may meet: AudioSegment.from_wav/export go through,
\* from_wav raises, or export raises with the .mp3 begun; the ffmpeg run
\* ends with code 0, with another code, by the timeout of line 154 with
\* the .mp3 begun, or cannot be started; an ffmpeg that does not answer
\* 'ffmpeg -version' properly converts nothing
ConvertEnvs ==
    {env \in [pydub : {"ok", "raises", "raises_exporting"},
              ms : {0},
              ffmpeg_version : FfmpegVersions,
              ffmpeg_run : {"returncode0", "nonzero", "timeout", "raises"},
              stderr : {<< >>}] :
        env.ffmpeg_version # "ok" => env.ffmpeg_run = "raises"}

\* convert_wav_to_mp3() with line 188 raising instead of going on to the
\* ffmpeg method
convert_wav_to_mp3_no_fallback(pydub_available, wav, env, fs) ==
    IF wav \notin DOMAIN fs
    THEN [tried |-> << >>, outcome |-> "WorkerError", path |-> None]
    ELSE IF pydub_available
    THEN IF convert_wav_to_mp3_pydub(pydub_available, env)
         THEN [tried |-> <<"pydub">>, outcome |-> "returned",
               path |-> mp3_path(wav)]
         ELSE [tried |-> <<"pydub">>, outcome |-> "WorkerError",
               path |-> None]
    ELSE IF convert_wav_to_mp3_ffmpeg(env)
         THEN [tried |-> <<"ffmpeg">>, outcome |-> "returned",
               path |-> mp3_path(wav)]
         ELSE [tried |-> <<"ffmpeg">>, outcome |-> "WorkerError",
               path |-> None]

\* convert_wav_to_mp3(), lines 171-198: the methods gone into, and the
\* path returned or the WorkerError raised
convert_wav_to_mp3(pydub_available, wav, env, fs) ==
    IF wav \notin DOMAIN fs
    THEN [tried |-> << >>, outcome |-> "WorkerError", path |-> None]
    ELSE IF pydub_available /\ convert_wav_to_mp3_pydub(pydub_available, env)
    THEN [tried |-> <<"pydub">>, outcome |-> "returned",
          path |-> mp3_path(wav)]
    ELSE LET tried == (IF pydub_available THEN <<"pydub">> ELSE << >>)
                         \o <<"ffmpeg">>
         IN  IF convert_wav_to_mp3_ffmpeg(env)
             THEN [tried |-> tried, outcome |-> "returned",
                   path |-> mp3_path(wav)]
             ELSE [tried |-> tried, outcome |-> "WorkerError",
                   path |-> None]

\* whether the call left a .mp3, whole or begun, beside the .wav
mp3_written(tried, env) ==
    \/ /\ \E i \in DOMAIN tried : tried[i] = "pydub"
       /\ env.pydub \in {"ok", "raises_exporting"}
    \/ /\ \E i \in DOMAIN tried : tried[i] = "ffmpeg"
       /\ _check_ffmpeg_availability(env) = "True"
       /\ env.ffmpeg_run \in {"returncode0", "timeout"}

\* one call of AudioProcessor.convert_wav_to_mp3(wav)
ConvertWavToMp3(wav, env) ==
    /\ imported = "loaded"
    /\ LET out == convert_wav_to_mp3(PYDUB_AVAILABLE, wav, env, files) IN
       /\ audio_call' = [fn |-> "convert_wav_to_mp3", file |-> wav,
                         exists |-> wav \in DOMAIN files, env |-> env,
                         wav |-> NoWavRead, tried |-> out.tried,
                         outcome |-> out.outcome, path |-> out.path,
                         duration |-> 0]
       /\ files' = IF mp3_written(out.tried, env)
                   THEN write_file(files, mp3_path(wav), 0)
                   ELSE files
    /\ UNCHANGED <<pool_vars, pipe, clock, returned, voice_vars, imported,
                   PYDUB_AVAILABLE>>

\* one call of AudioProcessor.get_mp3_duration(file): of a file that is
\* not there pydub and ffmpeg read nothing
GetMp3Duration(file, env) ==
    /\ imported = "loaded"
    /\ file \notin DOMAIN files =>
          (env.pydub = "raises" /\ env.stderr = << >>)
    /\ LET out == get_mp3_duration(PYDUB_AVAILABLE, env) IN
       audio_call' = [fn |-> "get_mp3_duration", file |-> file,
                      exists |-> file \in DOMAIN files, env |-> env,
                      wav |-> NoWavRead, tried |-> out.tried,
                      outcome |-> "returned", path |-> None,
                      duration |-> out.duration]
    /\ UNCHANGED <<pool_vars, pipe_vars, voice_vars, imported,
                   PYDUB_AVAILABLE>>

\* one call of AudioProcessor.get_audio_duration(file): of a file that is
\* not there wave.open() reads nothing
GetAudioDuration(file, read) ==
    /\ imported = "loaded"
    /\ file \notin DOMAIN files => ~read.readable
    /\ LET out == get_audio_duration(read) IN
       audio_call' = [fn |-> "get_audio_duration", file |-> file,
                      exists |-> file \in DOMAIN files,
                      env |-> NoAudioCall.env, wav |-> read,
                      tried |-> << >>, outcome |-> out.outcome,
                      path |-> None, duration |-> out.duration]
    /\ UNCHANGED <<pool_vars, pipe_vars, voice_vars, imported,
                   PYDUB_AVAILABLE>>

\* generate_tts() has written a .wav under outputs/, lines 678-692
WavWritten(timestamp) ==
    /\ imported = "loaded"
    /\ wav_path(timestamp) \notin DOMAIN files
    /\ files' = write_file(files, wav_path(timestamp), 0)
    /\ UNCHANGED <<pool_vars, pipe, clock, returned, voice_vars, audio_vars>>

\* the files the calls are about
AudioFiles == {wav_path(timestamp) : timestamp \in 0..MaxClock}

\* the interpreter is about to import the module
AudioInit ==
    /\ max_workers = 1
    /\ active_workers = << >>
    /\ worker_counter = 0
    /\ running = FALSE
    /\ no_narrations_backoff = 0
    /\ time_since_last_no_narration = 0
    /\ run_pc = "idle"
    /\ slept = 0
    /\ created = 0
    /\ executing = {}
    /\ pipe = << >>
    /\ files = << >>
    /\ clock = 0
    /\ returned = NoReturn
    /\ config = DefaultConfig
    /\ voice_call = NoVoiceCall
    /\ imported = "no"
    /\ PYDUB_AVAILABLE = FALSE
    /\ audio_call = NoAudioCall

AudioNext ==
    \/ \E pydub_imports \in BOOLEAN : ModuleImport(pydub_imports)
    \/ \E timestamp \in 0..MaxClock : WavWritten(timestamp)
    \/ \E wav \in AudioFiles, env \in ConvertEnvs : ConvertWavToMp3(wav, env)
    \/ \E wav \in AudioFiles, env \in DurationEnvs :
          GetMp3Duration(mp3_path(wav), env)
    \/ \E wav \in AudioFiles, read \in WavReads : GetAudioDuration(wav, read)

AudioSpec == AudioInit /\ [][AudioNext]_vars

(* ------------------------------ claims --------------------------------- *)
\* a step in which run() evaluates should_start_new_worker()
Decides == RunStart \/ LoopWake

\* C1: the number of entries of active_workers is at most config.max_workers
\* in every reachable state, for every max_workers the pool accepts, 0
\* included.
C1_ActiveWithinMax == Cardinality(DOMAIN active_workers) <= max_workers

\* C2: should_start_new_worker() never returns true when the number of
\* active executions is greater than or equal to config.max_workers.
C2_NeverTrueAtMax ==
    [][(Decides /\ Cardinality(DOMAIN active_workers) >= max_workers)
          => ~should_start_new_worker]_vars

\* C3: a finished execution with outcome no_work sets the backoff to 5 if
\* it was 0 and to min(2 * previous, 60) otherwise, and refreshes the time
\* of the last no_work; one with outcome success sets the backoff to 0.
C3_BackoffAccounting ==
    [][\A w \in executing :
          /\ Finish(w, "WorkerError_no_narration") =>
                /\ no_narrations_backoff' =
                      IF no_narrations_backoff = 0 THEN 5
                      ELSE IF 2 * no_narrations_backoff <= 60
                           THEN 2 * no_narrations_backoff
                           ELSE 60
                /\ time_since_last_no_narration' = 0
          /\ Finish(w, "True") => no_narrations_backoff' = 0]_vars

\* five executions in a row ended no_work (5, 10, 20, 40, 60) and the 60
\* second window is running
C3_Witness ==
    /\ no_narrations_backoff = 60
    /\ time_since_last_no_narration > 0
    /\ active_workers = << >>

\* C4: no_narrations_backoff is 0 or lies in 5..60 in every reachable state.
C4_BackoffRange ==
    \/ no_narrations_backoff = 0
    \/ (5 <= no_narrations_backoff /\ no_narrations_backoff <= 60)

\* the backoff stands at 60 while run() is about to decide
C4_Witness ==
    /\ no_narrations_backoff = 60
    /\ run_pc = "sleep"
    /\ slept >= PollInterval
    /\ running

\* the backoff C5 expects to be in force after the k-th empty probe
C5_Expected(k) ==
    CASE k = 1 -> 5
      [] k = 2 -> 10
      [] k = 3 -> 20
      [] k = 4 -> 40
      [] OTHER -> 60

\* C5: with the queue empty and one probe at a time, the backoff in force
\* before each re-poll doubles from one probe to the next: 5, 10, 20, 40,
\* then 60.
C5_BackoffDoublesPerProbe ==
    (/\ max_workers = 1
     /\ worker_counter >= 1
     /\ executing = {}
     /\ created = 0
     /\ no_narrations_backoff > 0)
        => no_narrations_backoff = C5_Expected(worker_counter)

\* C6: inside an unexpired backoff window a decide() launches nothing,
\* whatever the active count; and once a first no_work outcome has set the
\* backoff to 5 with no execution in flight, the first decide() at or after
\* 5 seconds launches a probe.
C6_BackoffWindow ==
    [][Decides =>
          /\ (no_narrations_backoff > 0
              /\ time_since_last_no_narration < no_narrations_backoff)
                => (~should_start_new_worker /\ created' = created)
          /\ (no_narrations_backoff = 5
              /\ time_since_last_no_narration >= 5
              /\ executing = {})
                => (should_start_new_worker /\ created' = created + 1)]_vars

\* the first execution ended no_work, five seconds went by, and the probe
\* has been created
C6_Witness ==
    /\ worker_counter = 1
    /\ created = 1
    /\ executing = {}
    /\ no_narrations_backoff = 0
    /\ time_since_last_no_narration = 5

\* C7: with zero executions active and no unexpired backoff window (the
\* backoff is 0, or the time since the last no_work is at least the
\* backoff), should_start_new_worker() returns true.
C7_TrueWhenIdle ==
    [][(/\ Decides
        /\ Cardinality(DOMAIN active_workers) = 0
        /\ \/ no_narrations_backoff = 0
           \/ time_since_last_no_narration >= no_narrations_backoff)
          => (should_start_new_worker /\ created' = created + 1)]_vars

\* a launch decided with nothing active, after two executions have ended
C7_Witness ==
    /\ created = 1
    /\ worker_counter = 2
    /\ active_workers = << >>

\* C8: once an execution has ended, no file that it wrote under outputs/
\* remains, whatever step it ended at.
C8_NoFileOutlivesExecution ==
    \A path \in DOMAIN files : files[path] \subseteq executing

\* the paths worker w has chosen: its raw file and the transcoded sibling
C9_Paths(w) ==
    IF pipe[w].file_path = None
    THEN {}
    ELSE {pipe[w].file_path, mp3_path(pipe[w].file_path)}

\* C9: two executions in flight at the same time never use the same local
\* artifact path.
C9_PathsDistinct ==
    \A w1 \in DOMAIN pipe, w2 \in DOMAIN pipe :
        w1 # w2 => C9_Paths(w1) \cap C9_Paths(w2) = {}

\* C10: the records in active_workers are those of the executions that
\* have started and not yet returned, one each.
C10_RecordsAreExecutions ==
    /\ DOMAIN active_workers = executing
    /\ Cardinality(DOMAIN active_workers) = Cardinality(executing)

\* two executions in flight, and one that has already ended
C10_Witness ==
    /\ Cardinality(executing) = 2
    /\ worker_counter = 3

\* C11: an execution's outcome is no_work only when the fetch step was
\* answered 404; every other failure up to the report step, a 404 on the
\* report step and a missing API key included, is a handled error: it is
\* not counted as no_work and leaves the backoff duration as it was.
C11_NoWorkOnlyFromFetch ==
    [][/\ \A w \in DOMAIN pipe :
             w \notin DOMAIN pipe' =>
                /\ returned'.status = "no_narrations" =>
                       (pipe[w].pc = "get_narration" /\ returned'.result = "404")
                /\ returned'.status \in {"error", "failed"} =>
                       no_narrations_backoff' = no_narrations_backoff
                /\ (pipe[w].pc = "update" /\ returned'.result = "404") =>
                       returned'.status = "error"
       /\ PipeStart("no_api_key") =>
             /\ returned'.status = "error"
             /\ no_narrations_backoff' = no_narrations_backoff]_vars

\* C12: once the report step has succeeded, the execution ends with outcome
\* success whatever the notify step does (download failed, webhook answered
\* with an error, exception inside send_narration_summary), and the backoff
\* is reset to 0 as after any success.
C12_NotifyNeverFails ==
    [][\A w \in DOMAIN pipe :
          pipe[w].pc = "notify" =>
             \/ (w \in DOMAIN pipe' /\ pipe'[w] = pipe[w])
             \/ /\ w \notin DOMAIN pipe'
                /\ returned'.status = "completed"
                /\ returned'.result \in NotifyResults
                /\ no_narrations_backoff' = 0]_vars

\* the second execution ended with success although something raised
\* inside send_narration_summary()
C12_Witness ==
    /\ worker_counter = 2
    /\ returned = [status |-> "completed", at |-> "notify",
                   result |-> "exception", uploaded |-> "mp3",
                   error_msg |-> << >>]
    /\ no_narrations_backoff = 0

\* C13: when transcoding fails the execution is not aborted: it goes on to
\* the upload with the raw .wav as the file to upload, and can still end
\* with outcome success; the uploaded file is the transcoded .mp3 exactly
\* when transcoding succeeded.
C13_TranscodeFailureContinues ==
    [][\A w \in DOMAIN pipe :
          /\ \A conv \in ConvertResults :
                StreamEnds(w, "complete", conv) =>
                   LET succeeded == conv = "converted"
                                    /\ pipe[w].file_path \in DOMAIN files
                   IN  /\ pipe'[w].pc = "upload"
                       /\ pipe'[w].wav_file_path = pipe[w].file_path
                       /\ upload_file_path(pipe'[w]) =
                             IF succeeded
                             THEN mp3_path(pipe[w].file_path)
                             ELSE pipe[w].file_path
          /\ (pipe[w].pc = "upload" /\ w \in DOMAIN pipe'
                 /\ pipe'[w].pc = "update") =>
                (pipe'[w].audio_url.ext = "mp3"
                    <=> pipe[w].mp3_file_path # pipe[w].wav_file_path)]_vars

\* an execution whose transcoding failed uploaded the .wav, reported it,
\* notified and ended with success
C13_Witness ==
    returned = [status |-> "completed", at |-> "notify",
                result |-> "sent", uploaded |-> "wav", error_msg |-> << >>]

\* C14: once run() has seen the stop (it has left the loop of line 967), no
\* new execution is launched, an execution in flight ends only by its own
\* outcome, never by an act of run(), and run() does not return while a
\* record is left in active_workers.
C14_StopDrains ==
    [][/\ run_pc \in {"drain", "done"} =>
             /\ created' = created
             /\ worker_counter' = worker_counter
             /\ executing' \subseteq executing
       /\ (~running /\ run_pc \in {"sleep", "drain", "done"}) =>
             /\ \A w \in executing \ executing' :
                   \E o \in Outcomes : Finish(w, o)
             /\ run_pc' = "done" => active_workers' = << >>]_vars

\* run() has returned from the wait of lines 983-984 (slept is the length
\* of a drain sleep, shorter than the sleep of line 973), at least two
\* executions having been launched before the stop
C14_Witness ==
    /\ run_pc = "done"
    /\ slept < PollInterval
    /\ worker_counter >= 2
    /\ active_workers = << >>

\* C15: if stop() is called and every execution in flight comes to an end,
\* run() returns, an execution launched in the very pass in which stop()
\* came included.
C15_RunReturns ==
    (~running /\ run_pc \in {"sleep", "drain"}) ~> (run_pc = "done")

\* stop() came right after a pass of the loop that created a task: the
\* task has not begun and run() is in the sleep of line 973
C15_Witness ==
    /\ ~running
    /\ run_pc = "sleep"
    /\ slept = 0
    /\ created = 1
    /\ executing = {}

\* C16: no failure of one job stops the pool.  Whatever the outcome of an
\* execution (success, no_work, handled error, unexpected error, Worker()
\* failing to construct), the step that ends it leaves run() where it is
\* and running as it is; and from any moment at which run() is in its loop
\* with no execution active, the loop launches another execution once the
\* backoff window is over, unless a stop is signalled first.
C16_PoolKeepsRunning ==
    /\ [][/\ \A w \in executing, o \in Outcomes :
                Finish(w, o) => (running' = running /\ run_pc' = run_pc)
           /\ \A ctor_ok \in BOOLEAN :
                TaskStart(ctor_ok) => (running' = running /\ run_pc' = run_pc)]_vars
    /\ (/\ running
        /\ run_pc = "sleep"
        /\ worker_counter >= 1
        /\ worker_counter < MaxLaunches
        /\ created = 0
        /\ executing = {})
          ~> (created > 0 \/ ~running)

\* three executions have ended, whatever their outcomes, and the loop has
\* just launched the fourth
C16_Witness ==
    /\ running
    /\ run_pc = "sleep"
    /\ slept = 0
    /\ created = 1
    /\ worker_counter = 3
    /\ executing = {}

\* C17: at most one execution is bound to a given job at any time: two
\* executions in flight together never hold the same narration id.
C17_OneExecutionPerJob ==
    \A w1 \in DOMAIN pipe, w2 \in DOMAIN pipe :
        (w1 # w2 /\ pipe[w1].narration_id # "")
            => pipe[w1].narration_id # pipe[w2].narration_id

\* the place of each await of process_narration() in the order of its steps
C18_StepIndex(pc) ==
    CASE pc = "get_narration" -> 1
      [] pc = "generate_tts" -> 2
      [] pc = "stream" -> 3
      [] pc = "upload" -> 4
      [] pc = "update" -> 5
      [] pc = "notify" -> 6

\* worker w takes its steps in order, each only after the one before has
\* succeeded, and ends at a failed fetch, text assembly, synthesis, upload
\* or report
C18_Ordered(w) ==
    /\ w \notin DOMAIN pipe => pipe'[w].pc = "get_narration"
    /\ (w \in DOMAIN pipe /\ w \in DOMAIN pipe') =>
          \/ pipe'[w] = pipe[w]
          \/ /\ C18_StepIndex(pipe'[w].pc) = C18_StepIndex(pipe[w].pc) + 1
             /\ pipe'[w].pc = "generate_tts" =>
                   /\ pipe'[w].narration_id # ""
                   /\ pipe'[w].text_content # << >>
                   /\ \E narration_data \in NarrationData :
                         GetNarrationReturns(w, "ok", narration_data)
             /\ pipe'[w].pc = "stream" => TtsResponds(w, "ok")
             /\ pipe'[w].pc = "upload" =>
                   /\ pipe'[w].wav_file_path # None
                   /\ pipe'[w].wav_file_path = pipe[w].file_path
             /\ pipe'[w].pc = "update" =>
                   /\ pipe'[w].audio_url # NoUrl
                   /\ UploadReturns(w, "ok")
             /\ pipe'[w].pc = "notify" => UpdateReturns(w, "ok")
    /\ \A res \in GetResults \ {"ok"} :
          GetNarrationReturns(w, res, NoData) => w \notin DOMAIN pipe'
    /\ \A narration_data \in NarrationData :
          (/\ GetNarrationReturns(w, "ok", narration_data)
           /\ (narration_data.id = "" \/ text_content(narration_data) = << >>))
             => w \notin DOMAIN pipe'
    /\ \A res \in TtsResults \ {"ok"} :
          TtsResponds(w, res) => w \notin DOMAIN pipe'
    /\ \A conv \in ConvertResults :
          StreamEnds(w, "broken", conv) => w \notin DOMAIN pipe'
    /\ UploadReturns(w, "error") => w \notin DOMAIN pipe'
    /\ \A res \in {"exception", "404", "error_status"} :
          UpdateReturns(w, res) => w \notin DOMAIN pipe'

\* worker w's transcoding fails: convert_wav_to_mp3 raises WorkerError
C18_TranscodeFails(w) ==
    \E conv \in ConvertResults :
        /\ StreamEnds(w, "complete", conv)
        /\ ~(conv = "converted" /\ pipe[w].file_path \in DOMAIN files)

\* C18 (as stated): the steps of an execution happen strictly in the order
\* fetch, text assembly, synthesize, transcode, measure, upload, report,
\* notify, each only after the one before has succeeded, and a failed step,
\* whichever it is, is followed by no later step other than cleanup.
C18_AnyFailedStepEndsExecution ==
    [][\A w \in DOMAIN pipe \cup DOMAIN pipe' :
          /\ C18_Ordered(w)
          /\ C18_TranscodeFails(w) => w \notin DOMAIN pipe']_vars

\* C18 (amended): the steps of an execution happen strictly in that order:
\* synthesis is requested only after a job with an id and a non-empty text
\* was fetched, upload only after synthesis returned a file, report only
\* after upload returned a URL, notify only after report succeeded; and a
\* failed fetch, text assembly, synthesis, upload or report is followed by
\* no later step other than cleanup.
C18_StepsInOrder ==
    [][\A w \in DOMAIN pipe \cup DOMAIN pipe' : C18_Ordered(w)]_vars

\* one execution has gone through every step up to notify while the other
\* ended at a failed report
C18_Witness ==
    /\ \E w \in DOMAIN pipe : pipe[w].pc = "notify"
    /\ returned.status = "error"
    /\ returned.at = "update"
    /\ returned.result = "404"

\* h is word with each letter in either case
C19_AnyCaseOf(h, word) ==
    /\ Len(h) = Len(word)
    /\ \A i \in DOMAIN word :
          \/ h[i] = word[i]
          \/ \E k \in DOMAIN LowerCase :
                LowerCase[k] = word[i] /\ UpperCase[k] = h[i]

\* h is female, woman, girl or f in any case
C19_FeminineHint(h) ==
    \E word \in {<<"f", "e", "m", "a", "l", "e">>, <<"w", "o", "m", "a", "n">>, <<"g", "i", "r", "l">>, <<"f">>} : C19_AnyCaseOf(h, word)

\* h is male, man, boy or m in any case
C19_MasculineHint(h) ==
    \E word \in {<<"m", "a", "l", "e">>, <<"m", "a", "n">>, <<"b", "o", "y">>, <<"m">>} : C19_AnyCaseOf(h, word)

\* C19: get_voice with use_random_voice false and a recognized hint (any
\* case of female/woman/girl/f or male/man/boy/m) returns config.voice if
\* config.voice is in the pool matching the hint, and a member of that
\* pool otherwise.
C19_HintSelectsPool ==
    (voice_call.called /\ ~config.use_random_voice) =>
        /\ C19_FeminineHint(voice_call.target_gender) =>
              IF config.voice \in {"tara", "leah", "mia"}
              THEN voice_call.selected_voice = config.voice
              ELSE voice_call.selected_voice \in {"tara", "leah", "mia"}
        /\ C19_MasculineHint(voice_call.target_gender) =>
              IF config.voice \in {"leo", "dan", "zac"}
              THEN voice_call.selected_voice = config.voice
              ELSE voice_call.selected_voice \in {"leo", "dan", "zac"}

\* hint "FEMALE" with the default voice leo from the masculine pool gave mia
C19_Witness ==
    /\ voice_call.called
    /\ ~config.use_random_voice
    /\ config.voice = "leo"
    /\ voice_call.target_gender = <<"F", "E", "M", "A", "L", "E">>
    /\ voice_call.selected_voice = "mia"

\* h is one of the eight words in any case, with whitespace around it or
\* without
C20_RecognizedHint(h) ==
    \E i \in 1..Len(h), j \in 1..Len(h) :
        /\ i <= j
        /\ C19_FeminineHint(SubSeq(h, i, j)) \/ C19_MasculineHint(SubSeq(h, i, j))
        /\ \A k \in 1..Len(h) : (k < i \/ k > j) => h[k] \in {" ", "\n"}

\* C20: get_voice with use_random_voice false and a hint that is absent
\* (None or empty) or unrecognized returns config.voice, whatever
\* config.voice is, and returns the same on every call.
C20_DefaultVoiceIsDeterministic ==
    [][(/\ voice_call'.called
        /\ ~config.use_random_voice
        /\ \/ voice_call'.target_gender = NoHint
           \/ voice_call'.target_gender = << >>
           \/ ~C20_RecognizedHint(voice_call'.target_gender))
          => /\ voice_call'.selected_voice = config.voice
             /\ (/\ voice_call.called
                 /\ voice_call.target_gender = voice_call'.target_gender)
                   => voice_call'.selected_voice = voice_call.selected_voice]_vars

\* an unrecognized hint, "other", with a default voice that is in neither
\* pool: the default voice came back
C20_Witness ==
    /\ voice_call.called
    /\ ~config.use_random_voice
    /\ config.voice = "nova"
    /\ voice_call.target_gender = <<"o", "t", "h", "e", "r">>
    /\ voice_call.selected_voice = "nova"

\* h is word in any case with whitespace around it or without, word being
\* one of words
C21_Padded(h, words) ==
    \E i \in 1..Len(h), j \in 1..Len(h) :
        /\ i <= j
        /\ \E word \in words : C19_AnyCaseOf(SubSeq(h, i, j), word)
        /\ \A k \in 1..Len(h) : (k < i \/ k > j) => h[k] \in {" ", "\n"}

\* C21: get_voice with use_random_voice true returns, for a recognized
\* hint, a member of the pool matching the hint and never of the other
\* pool, and for an absent or unrecognized hint a member of one of the two
\* pools; the pools are disjoint, and the result is the same whatever
\* config.voice is.
C21_RandomVoiceFromPool ==
    /\ \A i \in DOMAIN FEMALE_VOICES, j \in DOMAIN MALE_VOICES :
          FEMALE_VOICES[i] # MALE_VOICES[j]
    /\ (voice_call.called /\ config.use_random_voice) =>
          /\ voice_call.selected_voice \in
                {"tara", "leah", "mia"} \cup {"leo", "dan", "zac"}
          /\ C21_Padded(voice_call.target_gender,
                        {<<"f", "e", "m", "a", "l", "e">>, <<"w", "o", "m", "a", "n">>, <<"g", "i", "r", "l">>, <<"f">>})
                => voice_call.selected_voice \in {"tara", "leah", "mia"}
          /\ C21_Padded(voice_call.target_gender,
                        {<<"m", "a", "l", "e">>, <<"m", "a", "n">>, <<"b", "o", "y">>, <<"m">>})
                => voice_call.selected_voice \in {"leo", "dan", "zac"}
          /\ \E rnd \in RandomDraws :
                \A voice \in ConfigVoices :
                   voice_call.selected_voice =
                      get_voice([config EXCEPT !.voice = voice],
                                voice_call.target_gender, rnd)

\* hint "Man" with random voices and a configured voice that is in neither
\* pool gave zac
C21_Witness ==
    /\ voice_call.called
    /\ config.use_random_voice
    /\ config.voice = "nova"
    /\ voice_call.target_gender = <<"M", "a", "n">>
    /\ voice_call.selected_voice = "zac"

\* C22: get_mp3_duration never raises; when the primary method (pydub) is
\* available but fails on the file, the ffmpeg method is attempted next;
\* and 0.0 is returned only when both methods have failed.
C22_MeasureFallsBack ==
    audio_call.fn = "get_mp3_duration" =>
        LET env == audio_call.env
            primary_failed == ~PYDUB_AVAILABLE \/ env.pydub = "raises"
            secondary_failed ==
                \/ env.ffmpeg_version # "ok"
                \/ env.ffmpeg_run # "ended"
                \/ Len(env.stderr) # 3
                \/ \E i \in DOMAIN env.stderr : env.stderr[i] < 0
        IN  /\ audio_call.outcome = "returned"
            /\ (PYDUB_AVAILABLE /\ env.pydub = "raises") =>
                  audio_call.tried = <<"pydub", "ffmpeg">>
            /\ audio_call.duration = 0 =>
                  (primary_failed /\ secondary_failed)

\* what C23 says of one call of convert_wav_to_mp3(wav): exists is
\* whether the .wav was there, out is what the call did and gave back
C23_Contract(pydub_available, wav, exists, env, out) ==
    LET primary_ok == pydub_available /\ env.pydub = "ok"
        secondary_ok == env.ffmpeg_version = "ok"
                        /\ env.ffmpeg_run = "returncode0"
        tried(method) == \E i \in DOMAIN out.tried : out.tried[i] = method
    IN  /\ tried("pydub") <=> (exists /\ pydub_available)
        /\ tried("pydub") => out.tried[1] = "pydub"
        /\ tried("ffmpeg") <=> (exists /\ ~primary_ok)
        /\ Len(out.tried) <= 2
        /\ out.outcome = "returned" <=>
              (exists /\ (primary_ok \/ secondary_ok))
        /\ out.outcome = "returned" => out.path = mp3_path(wav)
        /\ out.outcome = "WorkerError" <=>
              (~exists \/ (~primary_ok /\ ~secondary_ok))

\* C23: convert_wav_to_mp3 tries the primary method (pydub) first when it
\* is available, tries the ffmpeg method exactly when the primary is
\* unavailable or failed, returns the .mp3 path as soon as one method
\* succeeds, and raises WorkerError exactly when both fail or the input
\* file does not exist.  This holds of the call that was made, and of the
\* function with PYDUB_AVAILABLE set either way.
C23_TranscodeFallsBack ==
    /\ audio_call.fn = "convert_wav_to_mp3" =>
          C23_Contract(PYDUB_AVAILABLE, audio_call.file, audio_call.exists,
                       audio_call.env, audio_call)
    /\ \A pydub_available \in BOOLEAN, wav \in AudioFiles,
          env \in ConvertEnvs :
          C23_Contract(pydub_available, wav, wav \in DOMAIN files, env,
                       convert_wav_to_mp3(pydub_available, wav, env, files))

\* pydub failed on a .wav that is there, ffmpeg converted it, and the .mp3
\* path came back
C23_Witness ==
    /\ audio_call.fn = "convert_wav_to_mp3"
    /\ audio_call.exists
    /\ audio_call.env.pydub = "raises"
    /\ audio_call.tried = <<"pydub", "ffmpeg">>
    /\ audio_call.outcome = "returned"
    /\ audio_call.path = mp3_path(audio_call.file)
    /\ audio_call.path \in DOMAIN files

\* C24: when no_narrations_backoff > 0 and the time since the last no_work
\* is at least no_narrations_backoff, should_start_new_worker() resets the
\* backoff to 0 and returns true if and only if zero executions are active;
\* with one or more active it returns false on that call and run() creates
\* no task.
C24_ExpiryProbesOnlyWhenIdle ==
    [][(/\ Decides
        /\ no_narrations_backoff > 0
        /\ time_since_last_no_narration >= no_narrations_backoff)
          => /\ no_narrations_backoff' = 0
             /\ should_start_new_worker
                   <=> Cardinality(DOMAIN active_workers) = 0
             /\ created' = IF Cardinality(DOMAIN active_workers) = 0
                           THEN created + 1
                           ELSE created]_vars

\* execution 2 ended no_work while execution 1 was still running; the five
\* seconds went by and the decide() that found the backoff run out reset
\* it and launched nothing
C24_Witness ==
    /\ max_workers = 2
    /\ worker_counter = 2
    /\ executing = {1}
    /\ created = 0
    /\ run_pc = "sleep"
    /\ slept = 0
    /\ no_narrations_backoff = 0
    /\ time_since_last_no_narration = 5

\* C25: with the backoff at 0 and 1 <= active count < max_workers,
\* should_start_new_worker() returns true if and only if some active record
\* has status 'processing' and an age above 30, and run() creates a task
\* exactly then; whatever the backoff, no execution is launched beside
\* others while every active record is 30 seconds old or younger.
C25_ScaleUpOnlyPastThreshold ==
    [][Decides =>
          /\ (/\ no_narrations_backoff = 0
              /\ 1 <= Cardinality(DOMAIN active_workers)
              /\ Cardinality(DOMAIN active_workers) < max_workers)
                => LET busy == \E w \in DOMAIN active_workers :
                                  /\ active_workers[w].status = "processing"
                                  /\ active_workers[w].processing_time > 30
                   IN  /\ should_start_new_worker <=> busy
                       /\ created' = IF busy THEN created + 1 ELSE created
          /\ (/\ Cardinality(DOMAIN active_workers) >= 1
              /\ \A w \in DOMAIN active_workers :
                    active_workers[w].processing_time <= 30)
                => (~should_start_new_worker /\ created' = created)]_vars

\* the first execution has been processing for more than 30 seconds and
\* the loop has just launched a second one beside it
C25_Witness ==
    /\ max_workers = 2
    /\ worker_counter = 1
    /\ executing = {1}
    /\ active_workers[1].processing_time = 31
    /\ no_narrations_backoff = 0
    /\ created = 1
    /\ slept = 0

\* C26: a launch that fails before fetching any job (Worker(worker_id,
\* config) raises inside start_worker) leaves no record in active_workers
\* and goes through the backoff accounting in such a way that immediately
\* failing launches are paced by backoff: a backoff is in force after it,
\* so the next poll does not relaunch.
C26_FailedLaunchIsPaced ==
    [][TaskStart(FALSE) =>
          /\ (worker_counter + 1) \notin DOMAIN active_workers'
          /\ DOMAIN active_workers' = DOMAIN active_workers
          /\ no_narrations_backoff' > 0]_vars

\* C27: record insertion on launch, and record removal together with the
\* backoff update on finish, are atomic with respect to
\* should_start_new_worker(): every decide() finds the records to be
\* exactly the executions that have started and whose backoff update is
\* still to come; the step that removes a record is the step that applies
\* its backoff update; the step in which an execution starts is the step
\* that inserts its record; and the backoff changes in no other step than
\* a finish or a decide().
C27_AtomicLaunchAndFinish ==
    [][/\ Decides => DOMAIN active_workers = executing
       /\ \A w \in executing :
             (w \notin DOMAIN active_workers' \/ w \notin executing') =>
                \E o \in Outcomes : Finish(w, o)
       /\ \A ctor_ok \in BOOLEAN :
             TaskStart(ctor_ok) =>
                /\ executing' \ executing
                      = DOMAIN active_workers' \ DOMAIN active_workers
                /\ ctor_ok => (worker_counter + 1) \in DOMAIN active_workers'
       /\ no_narrations_backoff' # no_narrations_backoff =>
             \/ Decides
             \/ \E w \in executing, o \in Outcomes : Finish(w, o)]_vars

\* execution 2 ended no_work a moment before a decide(), with execution 1
\* still running: the decide() found one record and the backoff at 5
C27_Witness ==
    /\ max_workers = 2
    /\ worker_counter = 2
    /\ executing = {1}
    /\ DOMAIN active_workers = {1}
    /\ run_pc = "sleep"
    /\ slept = 0
    /\ created = 0
    /\ no_narrations_backoff = 5
    /\ time_since_last_no_narration = 0

\* C28: after run() has decided to launch (create_task(start_worker())),
\* the task begins, and with it the record is inserted, before the next
\* evaluation of should_start_new_worker(): no decide() happens while a
\* created task has not begun, at most one such task exists at any time,
\* and a task that begins puts its record into active_workers in its first
\* step; so no decide() launches again for want of that record.
C28_RecordBeforeNextDecision ==
    [][/\ Decides => created = 0
       /\ created' <= 1
       /\ \A ctor_ok \in BOOLEAN :
             TaskStart(ctor_ok) =>
                /\ created = 1 /\ created' = 0
                /\ ctor_ok => (worker_counter + 1) \in DOMAIN active_workers'
       /\ (Decides /\ active_workers # << >>
             /\ \A w \in DOMAIN active_workers :
                   active_workers[w].processing_time <= 30)
             => created' = 0]_vars

\* the first execution was launched, began, and two seconds later the next
\* decide() found its record and launched nothing
C28_Witness ==
    /\ max_workers = 2
    /\ worker_counter = 1
    /\ executing = {1}
    /\ active_workers[1].processing_time = 2
    /\ run_pc = "sleep"
    /\ slept = 0
    /\ created = 0
    /\ no_narrations_backoff = 0

\* a field of the job as a text: nothing where it is missing, empty or null
C29_Field(x) == IF x = <<"None">> THEN << >> ELSE x

\* the text C29 has assembled for the job
C29_Assembled(narration_data) ==
    IF strip(C29_Field(narration_data.text)) # << >>
    THEN strip(C29_Field(narration_data.text))
    ELSE strip(C29_Field(narration_data.company_deep_research)
                  \o <<"\n", "\n">>
                  \o C29_Field(narration_data.profile_deep_research))

\* C29: for a fetched job with an id, the text is the job's text field,
\* trimmed, when that is non-blank, and otherwise company_deep_research, a
\* blank line, profile_deep_research, trimmed; with a non-empty text the
\* execution goes on to the synthesis request with that text; with an empty
\* one it ends with a handled error before any synthesis request, having
\* created no file and leaving the backoff unchanged.
C29_TextAssembly ==
    [][\A w \in DOMAIN pipe, narration_data \in NarrationData :
          (GetNarrationReturns(w, "ok", narration_data)
              /\ narration_data.id # "") =>
             IF C29_Assembled(narration_data) # << >>
             THEN /\ w \in DOMAIN pipe'
                  /\ pipe'[w].pc = "generate_tts"
                  /\ pipe'[w].text_content = C29_Assembled(narration_data)
             ELSE /\ w \notin DOMAIN pipe'
                  /\ returned'.status = "error"
                  /\ returned'.at = "get_narration"
                  /\ files' = files
                  /\ \A path \in DOMAIN files : w \notin files[path]
                  /\ no_narrations_backoff' = no_narrations_backoff]_vars

\* C30: when the fetch step is answered with a status that is neither 200
\* nor 404, the error that reaches the pool for that execution (the
\* WorkerError start_worker() catches at line 883) carries both the
\* response status and the response body.
C30_FetchErrorCarriesBody ==
    [][\A w \in DOMAIN pipe, status \in ErrorStatuses,
          response_text \in ResponseTexts :
          GetNarrationFails(w, status, response_text) =>
             /\ returned'.status = "error"
             /\ \E i \in DOMAIN returned'.error_msg :
                   returned'.error_msg[i] = status
             /\ \E i \in DOMAIN returned'.error_msg :
                   returned'.error_msg[i] = response_text]_vars

\* C35: an execution that ends with a handled error or an unexpected error
\* (status 'error' or 'failed': neither success nor no_work) leaves
\* no_narrations_backoff and last_no_narration_time as they were; of the
\* pool's state only its record goes, and where Worker(worker_id, config)
\* raised there is no record left to go.
C35_ErrorLeavesBackoff ==
    [][(/\ returned'.status \in {"error", "failed"}
        /\ \/ executing' \subseteq executing /\ executing' # executing
           \/ executing' = executing /\ worker_counter' # worker_counter)
          => /\ no_narrations_backoff' = no_narrations_backoff
             /\ time_since_last_no_narration' = time_since_last_no_narration
             /\ DOMAIN active_workers' = DOMAIN active_workers \cap executing'
             /\ \A v \in DOMAIN active_workers' :
                   active_workers'[v] = active_workers[v]
             /\ Cardinality(executing \ executing') <= 1
             /\ executing' \subseteq executing
             /\ running' = running
             /\ max_workers' = max_workers]_vars

\* one execution ended no_work beside another; a second or more later the
\* other ended with an error, and the backoff of 5 and the time since the
\* no_work stand as they stood
C35_Witness ==
    /\ worker_counter = 2
    /\ executing = {}
    /\ returned.status \in {"error", "failed"}
    /\ returned.at # "get_narration"
    /\ no_narrations_backoff = 5
    /\ time_since_last_no_narration >= 1

\* C36: run() launches at most one execution per polling iteration:
\* should_start_new_worker() is evaluated once and at most one start_worker
\* task is created for it, a task is created in no other step, and every
\* step that adds a record adds one record and uses up the one task that
\* was created; so the active count grows by at most one between two
\* consecutive polling sleeps.
C36_OneLaunchPerPoll ==
    [][/\ Decides =>
             /\ created = 0
             /\ created' = IF should_start_new_worker THEN 1 ELSE 0
             /\ active_workers' = active_workers
       /\ created' > created => Decides
       /\ Cardinality(DOMAIN active_workers')
             > Cardinality(DOMAIN active_workers) =>
             /\ Cardinality(DOMAIN active_workers')
                   = Cardinality(DOMAIN active_workers) + 1
             /\ created = 1
             /\ created' = 0]_vars

\* the first pass of the loop of a pool of two: nothing was active, and
\* one task was created, not two
C36_Witness ==
    /\ max_workers = 2
    /\ worker_counter = 0
    /\ active_workers = << >>
    /\ created = 1
    /\ run_pc = "sleep"
    /\ slept = 0

\* C37: a fetched job without an id ends the execution with a handled error
\* before text assembly and synthesis: no synthesis request is made, no
\* local file is created, nothing is uploaded or reported, and the backoff
\* is unchanged.
C37_JobWithoutId ==
    [][\A w \in DOMAIN pipe :
          \A narration_data \in {d \in NarrationData : d.id = ""} :
             GetNarrationReturns(w, "ok", narration_data) =>
                /\ w \notin DOMAIN pipe'
                /\ w \notin executing'
                /\ returned'.status = "error"
                /\ returned'.at = "get_narration"
                /\ returned'.uploaded = "None"
                /\ returned'.error_msg = <<"No narration ID in narration data">>
                /\ files' = files
                /\ \A path \in DOMAIN files : w \notin files[path]
                /\ no_narrations_backoff' = no_narrations_backoff
                /\ time_since_last_no_narration'
                      = time_since_last_no_narration]_vars

\* a first execution found no job and set the backoff to 5; the second was
\* given a job without an id and ended with the handled error, the backoff
\* still 5, no file written
C37_Witness ==
    /\ worker_counter = 2
    /\ executing = {}
    /\ returned.result = "no_id"
    /\ returned.status = "error"
    /\ returned.error_msg = <<"No narration ID in narration data">>
    /\ files = << >>
    /\ no_narrations_backoff = 5

\* C38: at every evaluation of should_start_new_worker(), every record in
\* active_workers has status 'processing' and belongs to an execution whose
\* process_narration() is in flight: 'starting' and the terminal statuses
\* 'completed', 'failed', 'no_narrations' and 'error' are written and then
\* replaced or removed within one step, so decide() never observes them.
C38_OnlyProcessingObserved ==
    [][Decides =>
          \A w \in DOMAIN active_workers :
             /\ active_workers[w].status = "processing"
             /\ active_workers[w].status
                   \notin {"starting", "completed", "failed",
                           "no_narrations", "error"}
             /\ w \in executing]_vars

\* a decide() has just been evaluated with two records present, the second
\* at least a second old: both stood at 'processing'
C38_Witness ==
    /\ max_workers = 2
    /\ DOMAIN active_workers = {1, 2}
    /\ active_workers[2].processing_time >= 1
    /\ active_workers[2].status = "processing"
    /\ run_pc = "sleep"
    /\ slept = 0
    /\ created = 0

\* C39: execution ids are unique and strictly increasing over the life of
\* a WorkerManager: each start_worker() call gets worker_counter + 1, which
\* is above every id given before, so no two executions, concurrent or not,
\* share an id; the counter never goes down; and the early return of lines
\* 860-861, for an id already in active_workers, is never taken.
C39_IdsUniqueAndIncreasing ==
    [][/\ worker_counter' >= worker_counter
       /\ \A w \in DOMAIN active_workers \cup executing : w <= worker_counter
       /\ \A ctor_ok \in BOOLEAN :
             TaskStart(ctor_ok) =>
                /\ worker_counter' = worker_counter + 1
                /\ (worker_counter + 1) \notin DOMAIN active_workers
                /\ (worker_counter + 1) \notin executing
                /\ ctor_ok =>
                      /\ DOMAIN active_workers'
                            = DOMAIN active_workers \cup {worker_counter'}
                      /\ executing' = executing \cup {worker_counter'}]_vars

\* executions 1 and 3 run side by side after execution 2 has come and gone:
\* the third was numbered 3, not 2
C39_Witness ==
    /\ max_workers = 2
    /\ worker_counter = 3
    /\ executing = {1, 3}
    /\ DOMAIN active_workers = {1, 3}
    /\ created = 0

\* C33: get_audio_duration returns frames / sample_rate rounded to 2
\* decimals (the hundredth nearest to the quotient) for a .wav it can read,
\* and 0 for any read failure; it never raises, so a failed duration read
\* cannot end the execution that called it.
C33_RawDuration ==
    audio_call.fn = "get_audio_duration" =>
        LET read == audio_call.wav
            d == audio_call.duration
        IN  /\ audio_call.outcome = "returned"
            /\ (read.readable /\ read.rate > 0) =>
                  /\ 2 * (100 * read.frames - d * read.rate) <= read.rate
                  /\ 2 * (d * read.rate - 100 * read.frames) <= read.rate
            /\ (~read.readable \/ read.rate = 0) => d = 0
            /\ ~audio_call.exists => d = 0

\* a .wav of 12345 frames at 24000 frames a second was read (0.514375 s)
\* and 0.51 came back
C33_Witness ==
    /\ audio_call.fn = "get_audio_duration"
    /\ audio_call.exists
    /\ audio_call.wav = [readable |-> TRUE, frames |-> 12345, rate |-> 24000]
    /\ audio_call.duration = 51
    /\ audio_call.outcome = "returned"

\* the duration C31 expects of the measurements: transcoded says whether
\* the conversion gave a .mp3, mp3 and wav are what measuring each gives,
\* in hundredths of a second
C31_Expected(transcoded, mp3, wav) ==
    IF transcoded
    THEN IF mp3 # 0 THEN mp3 ELSE wav
    ELSE wav

\* C31: when a transcoded file exists its duration is measured first, and
\* when that measurement fails (gives 0.0) the duration of the original
\* .wav is used; when there is no transcoded file the .wav's duration is
\* used; whatever the measurements give, the execution goes on to the
\* upload; and the duration reported is the one measured this way: it is
\* what the report carries, cut to whole seconds, and it does not change
\* from the measurement to the end of the execution.
C31_DurationMeasured ==
    [][/\ \A w \in DOMAIN pipe, conv \in ConvertResults,
             env \in PipeDurationEnvs, read \in PipeWavReads :
             StreamCompletes(w, conv, env, read) =>
                LET transcoded == conv = "converted"
                                  /\ pipe[w].file_path \in DOMAIN files
                    mp3 == IF env.pydub = "ok"
                           THEN (env.ms + 5) \div 10 ELSE 0
                    wav == IF read.readable
                           THEN (200 * read.frames + read.rate)
                                   \div (2 * read.rate)
                           ELSE 0
                IN  /\ w \in DOMAIN pipe'
                    /\ pipe'[w].pc = "upload"
                    /\ pipe'[w].audio_duration
                          = C31_Expected(transcoded, mp3, wav)
       /\ \A w \in DOMAIN pipe \cap DOMAIN pipe' :
             /\ pipe[w].pc \in {"upload", "update", "notify"} =>
                   pipe'[w].audio_duration = pipe[w].audio_duration
             /\ pipe'[w].pc \in {"update", "notify"} =>
                   /\ pipe'[w].payload.audio_duration * 100
                         <= pipe'[w].audio_duration
                   /\ pipe'[w].audio_duration
                         < (pipe'[w].payload.audio_duration + 1) * 100]_vars

\* the .mp3 was there but measuring it gave 0, the .wav gave 2.51 s, and
\* the report went out with 2 seconds
C31_Witness ==
    \E w \in DOMAIN pipe :
        /\ pipe[w].pc = "update"
        /\ pipe[w].mp3_file_path.ext = "mp3"
        /\ pipe[w].audio_duration = 251
        /\ pipe[w].payload.audio_duration = 2

\* C34: the voice named in the notification summary of a job is the voice
\* that was used to synthesize that job's audio, for every configuration
\* (use_random_voice true or false) and every gender hint.
C34_SummaryNamesSynthVoice ==
    voice_call.chosen_voice # "" =>
        voice_call.chosen_voice = voice_call.selected_voice

\* C32: every temporary file (audio download, long-text file) that
\* send_narration_summary writes under outputs/ is gone when the call
\* returns, on every way out: the post succeeded or failed, the download
\* failed or broke off, something was raised after the file name was
\* chosen; a file that is already gone at the cleanup is passed over and
\* the cleanup raises nothing: the call always returns.  A file stays only
\* where os.remove itself failed on it.
C32_TempFilesRemoved ==
    [][(\/ \E w \in DOMAIN pipe : w \notin DOMAIN pipe'
        \/ /\ worker_counter' # worker_counter
           /\ (worker_counter + 1) \notin DOMAIN pipe')
          => /\ returned'.status = "returned"
             /\ returned'.remove = "ok" =>
                   \A path \in returned'.wrote : path \notin DOMAIN files'
             /\ DOMAIN files' \subseteq DOMAIN files \cup returned'.wrote]_vars

\* a call that had written the text file and the audio file ended on a
\* download that broke off; the last call in flight, it left no file
C32_Witness ==
    /\ returned.status = "returned"
    /\ returned.at = "chunks"
    /\ returned.result = "broken"
    /\ returned.remove = "ok"
    /\ Cardinality(returned.wrote) = 2
    /\ pipe = << >>
    /\ files = << >>

=============================================================================
